---- MODULE Spec2Model ----
(***************************************************************************)
(* AliceEphemera: the multi-step create / rebuild wizards                  *)
(* (menu/instanceMultiStep.ts), the polling loops that follow a mutating   *)
(* call (menu/index.ts) and the shared CONFIG store (alice/config.ts).     *)
(*                                                                         *)
(* Encoding.  A JavaScript string that the code parses is a sequence of    *)
(* one-character strings.  A number field that may be NaN is an integer,   *)
(* NaN being the value NaN below (ids and hours are never negative).  The  *)
(* result of parseInt / parseFloat is a record [nan, num, den] standing    *)
(* for num/den.  An optional value (selectedItems[0], an item's            *)
(* description, the payload of a result) is a sequence of length 0 or 1.   *)
(***************************************************************************)
EXTENDS Integers, Sequences, FiniteSets, TLC

\* ------------------------------------------------------------------ bounds
MaxPlan == 2
MaxOs == 2
MaxKey == 1
MaxTime == 12
MaxRefresh == 2
MaxPending == 1
MaxStale == 1
MaxErrors == 2
MaxUpdates == 2
MaxInstances == 2
MaxCreate == 1
MaxTimers == 1
MaxListFetches == 1

\* --------------------------------------------------------------- constants
NaN == -1

\* CreateInstanceStep
SelectPlan == 0
SelectOS == 1
EnterTime == 2
SelectSSHKey == 3
SelectBootScript == 4

\* RebulidInstanceStep
RebuildSelectOS == 0
RebuildSelectSSHKey == 1
RebuildSelectBootScript == 2

PlanIds == 1..MaxPlan
OsIds == 1..MaxOs
KeyIds == 1..MaxKey
ScriptNames == {"a.sh"}

\* ------------------------------------------------- strings and conversions
DigitChars == <<"0", "1", "2", "3", "4", "5", "6", "7", "8", "9">>

IsDigit(c) == \E i \in 1..10 : DigitChars[i] = c

DigitVal(c) == (CHOOSE i \in 1..10 : DigitChars[i] = c) - 1

RECURSIVE Pow10(_)
Pow10(k) == IF k <= 0 THEN 1 ELSE 10 * Pow10(k - 1)

\* Number.prototype.toString for a non-negative integer
RECURSIVE ToStr(_)
ToStr(n) ==
    IF n < 10 THEN <<DigitChars[n + 1]>>
    ELSE Append(ToStr(n \div 10), DigitChars[(n % 10) + 1])

\* String.prototype.trim
RECURSIVE TrimLeft(_)
TrimLeft(s) ==
    IF Len(s) > 0 /\ Head(s) = " " THEN TrimLeft(Tail(s)) ELSE s

RECURSIVE TrimRight(_)
TrimRight(s) ==
    IF Len(s) > 0 /\ s[Len(s)] = " "
    THEN TrimRight(SubSeq(s, 1, Len(s) - 1))
    ELSE s

trim(s) == TrimRight(TrimLeft(s))

\* the length of the longest prefix of s made of decimal digits
RECURSIVE DigitRun(_)
DigitRun(s) ==
    IF Len(s) > 0 /\ IsDigit(Head(s)) THEN 1 + DigitRun(Tail(s)) ELSE 0

\* the value of a sequence of decimal digits (0 for the empty one)
RECURSIVE DigitsValue(_)
DigitsValue(s) ==
    IF Len(s) = 0 THEN 0
    ELSE 10 * DigitsValue(SubSeq(s, 1, Len(s) - 1)) + DigitVal(s[Len(s)])

HasSign(s) == Len(s) > 0 /\ Head(s) \in {"+", "-"}

SignOf(s) == IF Len(s) > 0 /\ Head(s) = "-" THEN -1 ELSE 1

Unsigned(s) == IF HasSign(s) THEN Tail(s) ELSE s

JsNaN == [nan |-> TRUE, num |-> 0, den |-> 1]

JsNum(n, d) == [nan |-> FALSE, num |-> n, den |-> d]

\* parseInt(s, 10): leading white space, a sign, then the longest digit prefix
parseInt(s) ==
    LET t == TrimLeft(s)
        u == Unsigned(t)
        k == DigitRun(u)
    IN  IF k = 0 THEN JsNaN
        ELSE JsNum(SignOf(t) * DigitsValue(SubSeq(u, 1, k)), 1)

\* parseFloat(s): leading white space, a sign, then the longest prefix
\* digits [. digits] [e [sign] digits]  or  . digits [e [sign] digits]
parseFloat(s) ==
    LET t == TrimLeft(s)
        u == Unsigned(t)
        k == DigitRun(u)
        r1 == SubSeq(u, k + 1, Len(u))
        dot == Len(r1) > 0 /\ Head(r1) = "."
        f == IF dot THEN DigitRun(Tail(r1)) ELSE 0
        r2 == IF dot THEN SubSeq(r1, f + 2, Len(r1)) ELSE r1
        e1 == IF Len(r2) > 0 /\ Head(r2) \in {"e", "E"} THEN Tail(r2) ELSE <<>>
        ek == DigitRun(Unsigned(e1))
        ex == IF ek = 0 THEN 0
              ELSE SignOf(e1) * DigitsValue(SubSeq(Unsigned(e1), 1, ek))
        mant == DigitsValue(SubSeq(u, 1, k)) * Pow10(f)
                    + (IF f > 0 THEN DigitsValue(SubSeq(r1, 2, f + 1)) ELSE 0)
        sh == ex - f
    IN  IF k = 0 /\ f = 0 THEN JsNaN
        ELSE IF sh >= 0 THEN JsNum(SignOf(t) * mant * Pow10(sh), 1)
        ELSE JsNum(SignOf(t) * mant, Pow10(-sh))

isNaN(x) == x.nan

\* a === b on numbers (NaN is equal to nothing)
NumEq(a, b) == ~a.nan /\ ~b.nan /\ a.num * b.den = b.num * a.den

\* Number(description): the description is id.toString() or undefined
Number(description) ==
    IF Len(description) = 0 THEN NaN ELSE description[1]

\* x || NaN on a number: 0 and NaN are falsy
OrNaN(x) == IF x = 0 \/ x = NaN THEN NaN ELSE x


\* ------------------------------------------------------------------- items
\* backItem (the code compares with ===; no other item has this label)
backItem == [label |-> "$(arrow-left) back", description |-> <<>>]

NoKeyItem == [label |-> "no SSH key", description |-> <<>>]

NoScriptLabel == "no boot script"

NoScriptItem == [label |-> NoScriptLabel, description |-> <<>>]

PlanItems(cfg) ==
    {[label |-> "plan", description |-> <<p>>] : p \in DOMAIN cfg.planList}

OsItems(osList) == {[label |-> "os", description |-> <<o>>] : o \in osList}

KeyItems(cfg) == {[label |-> "key", description |-> <<k>>] : k \in cfg.sshKeyList}

ScriptItems(scripts) == {[label |-> n, description |-> <<>>] : n \in scripts}

\* selection?.description is truthy
HasDescription(sel) == Len(sel) > 0 /\ Len(sel[1].description) > 0

\* the texts the duration step can be given
Malformed ==
    { <<>>, <<"a", "b", "c">>, <<"3", ".", "5">>, <<"-", "1">>,
      <<"2", "a", "b", "c">>, <<" ", "2", " ">>, <<"1", "e", "1">>,
      <<"2", ".", "0">> }

\* every text of the duration step: "0" .. max+1 and the malformed ones
DurationTexts == {ToStr(n) : n \in 0..(MaxTime + 1)} \cup Malformed

\* the texts typed in a whole run of the wizard
Values == { <<"1", "2">>, ToStr(MaxTime + 1), <<"a", "b", "c">> }

\* ------------------------------------------------------------------- state
VARIABLES
    CONFIG,          \* the shared store (alice/config.ts)
    refreshes,       \* number of store refreshes so far
    wizard,          \* "none", "create" or "rebuild": the run in progress
    seeded,          \* the create run was given default_plan
    plan,            \* createInstanceMultiStep: plan
    rebulidInfo,     \* rebulidInstanceMultiStep: rebulidInfo
    currentStep,
    errorMessage,    \* <<>> is undefined
    isCompleted,
    quickPick,       \* [step, value, items, visible, disposed]
    uiItems,         \* the item list on screen (the last finished render)
    pendingRenders,  \* updateView calls suspended at await getScriptList, each
                     \* with TRUE when no updateView call started after it
    hidePending,     \* hide() was called, onDidHide not yet delivered
    result,          \* the promise: [status, payload, message]
    uiStale,         \* the screen shows an older render than the last one started
    staleCount,      \* number of stale accept events delivered (bounded)
    startConfig,     \* history: <<hasEvoPermission>> when the run started
    wentBack,        \* history: the back button was used in this run
    entered,         \* history: the last input each step took (the text
                     \* for the duration step, selectedItems for the others)
    lastEv           \* history: the last event handled

wizardVars ==
    <<wizard, seeded, plan, rebulidInfo, currentStep, errorMessage, isCompleted,
      quickPick, uiItems, pendingRenders, hidePending, result, uiStale,
      staleCount, startConfig, wentBack, entered, lastEv>>

\* menu/index.ts: the polling loop that follows an operation
VARIABLES
    tracker,         \* "none", "create", "rebuild", "power" or "script"
    trackerPc,       \* where the loop stands
    attempts,
    instanceState,   \* instanceState?.state?.state of the last fetch
    state,           \* the state the loop waits for
    fetches,         \* history: number of fetches issued and answered
    everTrue,        \* history: some fetch returned what the loop waits for
    hardError,       \* history: a fetch failed with an error that ends the loop
    trackerEnd,      \* how the loop ended
    firstTrue,       \* history: the fetch that first returned what the loop
                     \* waits for (0: none yet)
    lastPoll,        \* history: what the last fetch was answered with
    slept,           \* history: a delay has run out since the loop started
                     \* or last fetched
    inFlight,        \* fetches of the loop issued and not yet answered
    pendingTimers,   \* setTimeout callbacks of the loop not yet run
    notifications,   \* number of messages shown to the user, by level
    lastNotice       \* the last message shown: <<level, text, detail>>

trackerVars ==
    <<tracker, trackerPc, attempts, instanceState, state, fetches, everTrue,
      hardError, trackerEnd, firstTrue, lastPoll, slept, inFlight,
      pendingTimers, notifications, lastNotice>>

\* menu/index.ts: the operation on an instance that runs the polling loop
VARIABLES
    op,              \* "none", "create", "rebuild", "power", "renew" or "delete"
    opPc,            \* where the operation stands
    response,        \* what the remote call of the operation was answered with
    bootScriptUid,   \* the answer names a boot script command to wait for
    autoConnect,     \* CONFIG.autoConnectInstance: "false", or on with or
                     \* without a configured host
    opFailure        \* history: how the operation failed ("none": it did not)

opVars == <<op, opPc, response, bootScriptUid, autoConnect, opFailure>>

\* alice/config.ts: the calls of updateStateConfig
VARIABLES
    updates,         \* history: the newState of each call, in order
    snapshots        \* history: CONFIG as it was before each call

storeVars == <<updates, snapshots>>

\* alice/aliceService.ts: updateConfig("all") call by call
VARIABLES
    rPc,             \* where the refresh stands
    rPlans,          \* the local planList: for each plan <<>> while its OS
                     \* fetch is pending, <<os>> once it has settled
    rLog,            \* history: the remote calls issued by this refresh
    rOut,            \* history: how the calls of this refresh were answered
    rBefore          \* history: CONFIG when this refresh started

refreshVars == <<rPc, rPlans, rLog, rOut, rBefore>>

\* the instance the store tracks, the provider's side and the recurring task
VARIABLES
    remote,          \* the instances alive at the provider
    timers,          \* the interval handles scheduled in the runtime
    iPc,             \* where deleteInstanceItems stands
    iTarget,         \* the instance the running operation is about
    listFetches,     \* getInstanceList calls in flight that nobody awaits
    created,         \* number of createInstance calls answered so far
    writers,         \* history: the subsystems that wrote each CONFIG field
    sinceDelete,     \* history: a deletion went through, no create since
    iEv              \* history: the last step taken

instanceVars ==
    <<remote, timers, iPc, iTarget, listFetches, created, writers, sinceDelete,
      iEv>>

vars ==
    <<CONFIG, refreshes, wizardVars, trackerVars, opVars, storeVars, refreshVars,
      instanceVars>>

StoreFields ==
    {"hasEvoPermission", "evoPermissions", "planList", "sshKeyList",
     "defaultPlan", "bootScriptPath", "instanceList", "instanceState",
     "doNotRemindExpiration", "updateStatusBarInterval"}

InstanceIdle ==
    /\ timers = {}
    /\ iPc = "idle"
    /\ iTarget = 0
    /\ listFetches = 0
    /\ created = 0
    /\ writers = [f \in StoreFields |-> {}]
    /\ sinceDelete = FALSE
    /\ iEv = "none"

NoAnswers ==
    [instances |-> "none", permission |-> "none", plans |-> "none",
     keys |-> "none", osFailed |-> {}, osFetched |-> <<>>, allow |-> <<>>]

RefreshIdle ==
    /\ rPc = "idle"
    /\ rPlans = <<>>
    /\ rLog = <<>>
    /\ rOut = NoAnswers
    /\ rBefore = <<>>

OpIdle ==
    /\ op = "none"
    /\ opPc = "idle"
    /\ response = "none"
    /\ bootScriptUid = FALSE
    /\ autoConnect = "false"
    /\ opFailure = "none"

TrackerIdle ==
    /\ tracker = "none"
    /\ trackerPc = "idle"
    /\ attempts = 0
    /\ instanceState = "undefined"
    /\ state = "running"
    /\ fetches = 0
    /\ everTrue = FALSE
    /\ hardError = FALSE
    /\ trackerEnd = "none"
    /\ firstTrue = 0
    /\ lastPoll = "none"
    /\ slept = FALSE
    /\ inFlight = 0
    /\ pendingTimers = 0
    /\ notifications = [info |-> 0, warning |-> 0, error |-> 0]
    /\ lastNotice = <<>>
    /\ OpIdle
    /\ updates = <<>>
    /\ snapshots = <<>>
    /\ RefreshIdle

NaNPlan == [id |-> NaN, os |-> NaN, time |-> NaN, sshKey |-> NaN, bootScript |-> ""]

DefaultPlans ==
    {[id |-> 1, os |-> 1, time |-> 1, sshKey |-> NaN, bootScript |-> ""]}

Pending == [status |-> "pending", payload |-> <<>>, message |-> <<>>]

NoEvent ==
    [kind |-> "none", sel |-> <<>>, value |-> <<>>, stale |-> FALSE, late |-> FALSE]

NewQuickPick ==
    [step |-> 0, value |-> <<>>, items |-> {}, visible |-> FALSE, disposed |-> FALSE]

\* the catalogs a refresh can store: the first n plans, of which plan 1
\* offers every OS and the other plans none
Catalogs ==
    {[p \in 1..n |-> IF p = 1 THEN OsIds ELSE {}] : n \in 0..MaxPlan}

\* the extension as activated: CONFIG as config.ts builds it, nothing running
Activated ==
    /\ CONFIG \in
         [hasEvoPermission : {FALSE},
          evoPermissions : {[max_time |-> 0]},
          planList : {<<>>},
          sshKeyList : {{}},
          defaultPlan : DefaultPlans,
          bootScriptPath : BOOLEAN,
          instanceList : {<<>>},
          instanceState : {<<>>},
          doNotRemindExpiration : {FALSE},
          updateStatusBarInterval : {<<>>}]
    /\ refreshes = 0
    /\ wizard = "none"
    /\ seeded = FALSE
    /\ plan = NaNPlan
    /\ rebulidInfo = [planId |-> NaN, os |-> NaN, sshKey |-> NaN, bootScript |-> ""]
    /\ currentStep = 0
    /\ errorMessage = <<>>
    /\ isCompleted = FALSE
    /\ quickPick = NewQuickPick
    /\ uiItems = {}
    /\ pendingRenders = <<>>
    /\ uiStale = FALSE
    /\ startConfig = <<>>
    /\ staleCount = 0
    /\ wentBack = FALSE
    /\ hidePending = FALSE
    /\ result = Pending
    /\ entered = [s \in 0..4 |-> <<>>]
    /\ lastEv = NoEvent
    /\ TrackerIdle
    /\ InstanceIdle

Init == Activated /\ remote = {}

\* ------------------------------------------------------------------- store
\* variant: an update that replaces the store, resetting the fields it is
\* not given
updateStateConfigReplace(cfg, newState) ==
    [f \in DOMAIN cfg |->
        CASE f \in DOMAIN newState -> newState[f]
          [] f = "hasEvoPermission" -> FALSE
          [] f = "evoPermissions" -> [max_time |-> 0]
          [] f = "planList" -> <<>>
          [] f = "sshKeyList" -> {}
          [] OTHER -> cfg[f]]

\* updateStateConfig: Object.assign(CONFIG, newState)
updateStateConfig(cfg, newState) ==
    [f \in DOMAIN cfg |-> IF f \in DOMAIN newState THEN newState[f] ELSE cfg[f]]

\* updateConfig("all") seen from outside: permission denied stores only the
\* flag; permission granted stores the permissions and the catalogs
Refresh(perm, cat) ==
    /\ refreshes < MaxRefresh
    /\ refreshes' = refreshes + 1
    /\ CONFIG' =
         IF perm
         THEN updateStateConfig(CONFIG,
                [hasEvoPermission |-> TRUE,
                 evoPermissions |-> [max_time |-> MaxTime],
                 planList |-> cat,
                 sshKeyList |-> KeyIds])
         ELSE updateStateConfig(CONFIG, [hasEvoPermission |-> FALSE])
    /\ lastEv' = [kind |-> "refresh", sel |-> <<>>, value |-> <<>>,
                  stale |-> FALSE, late |-> FALSE]
    /\ UNCHANGED <<wizard, seeded, plan, rebulidInfo, currentStep, errorMessage,
                   isCompleted, quickPick, uiItems, pendingRenders, hidePending,
                   result, uiStale, staleCount, startConfig, wentBack, entered>>


\* ----------------------------------------------------------- wizard pieces
\* resolve(r) on the promise of the run: only the first call settles it
Resolve(res, r) == IF res.status = "pending" THEN r ELSE res

ErrorResult(text, id) ==
    [status |-> "error", payload |-> <<>>, message |-> <<text, id>>]

CancelledResult == [status |-> "cancelled", payload |-> <<>>, message |-> <<>>]

CompletedResult(request) ==
    [status |-> "completed", payload |-> <<request>>, message |-> <<>>]

\* the duration step's validation of quickPick.value
ValidateTime(value, max) ==
    LET timeValue == trim(value)
        timeNum == parseInt(timeValue)
    IN  IF isNaN(timeNum) \/ timeNum.num <= 0
        THEN [ok |-> FALSE, time |-> NaN, error |-> <<"not a positive integer">>]
        ELSE IF ~NumEq(timeNum, parseFloat(timeValue))
        THEN [ok |-> FALSE, time |-> NaN, error |-> <<"integers only">>]
        ELSE IF timeNum.num > max
        THEN [ok |-> FALSE, time |-> NaN, error |-> <<"longer than max_time">>]
        ELSE [ok |-> TRUE, time |-> timeNum.num, error |-> <<>>]

\* the guard under which onDidAccept takes the input of a step of the create wizard
CreateStepValid(step, sel, v, max) ==
    CASE step = SelectPlan -> HasDescription(sel)
      [] step = SelectOS -> HasDescription(sel)
      [] step = EnterTime -> ValidateTime(v, max).ok
      [] step = SelectSSHKey -> Len(sel) > 0
      [] step = SelectBootScript -> Len(sel) > 0
      [] OTHER -> FALSE

\* variant: the script step stores the label it is given, whatever it is
CreateStepWriteLabel(step, pl, sel, v, max) ==
    CASE step = SelectPlan -> [pl EXCEPT !.id = Number(sel[1].description)]
      [] step = SelectOS -> [pl EXCEPT !.os = Number(sel[1].description)]
      [] step = EnterTime -> [pl EXCEPT !.time = ValidateTime(v, max).time]
      [] step = SelectSSHKey ->
            [pl EXCEPT !.sshKey = OrNaN(Number(sel[1].description))]
      [] step = SelectBootScript -> [pl EXCEPT !.bootScript = sel[1].label]
      [] OTHER -> pl

\* variant: an OS step that advances without storing the OS
CreateStepWriteSkipOs(step, pl, sel, v, max) ==
    CASE step = SelectPlan -> [pl EXCEPT !.id = Number(sel[1].description)]
      [] step = SelectOS -> pl
      [] step = EnterTime -> [pl EXCEPT !.time = ValidateTime(v, max).time]
      [] step = SelectSSHKey ->
            [pl EXCEPT !.sshKey = OrNaN(Number(sel[1].description))]
      [] step = SelectBootScript ->
            [pl EXCEPT !.bootScript =
                IF sel[1].label = NoScriptLabel THEN "" ELSE sel[1].label]
      [] OTHER -> pl

\* the field of plan the step writes
CreateStepWrite(step, pl, sel, v, max) ==
    CASE step = SelectPlan -> [pl EXCEPT !.id = Number(sel[1].description)]
      [] step = SelectOS -> [pl EXCEPT !.os = Number(sel[1].description)]
      [] step = EnterTime -> [pl EXCEPT !.time = ValidateTime(v, max).time]
      [] step = SelectSSHKey ->
            [pl EXCEPT !.sshKey = OrNaN(Number(sel[1].description))]
      [] step = SelectBootScript ->
            [pl EXCEPT !.bootScript =
                IF sel[1].label = NoScriptLabel THEN "" ELSE sel[1].label]
      [] OTHER -> pl

\* the guard and the write of a step of the rebuild wizard
RebuildStepValid(step, sel) ==
    CASE step = RebuildSelectOS -> HasDescription(sel)
      [] step = RebuildSelectSSHKey -> Len(sel) > 0
      [] step = RebuildSelectBootScript -> Len(sel) > 0
      [] OTHER -> FALSE

RebuildStepWrite(step, info, sel) ==
    CASE step = RebuildSelectOS -> [info EXCEPT !.os = Number(sel[1].description)]
      [] step = RebuildSelectSSHKey ->
            [info EXCEPT !.sshKey = OrNaN(Number(sel[1].description))]
      [] step = RebuildSelectBootScript ->
            [info EXCEPT !.bootScript =
                IF sel[1].label = NoScriptLabel THEN "" ELSE sel[1].label]
      [] OTHER -> info

\* variant: a back button that goes two steps back
BackStepTwo(step) == step - 2

\* the back button: currentStep--
BackStep(step) == step - 1

\* variant: a back button that clears what the later steps wrote
AfterBackReset(request) ==
    [f \in DOMAIN request |->
        CASE f = "planId" -> request[f]
          [] f = "bootScript" -> ""
          [] OTHER -> NaN]

\* the request after the back button: the branch writes no field
AfterBack(request) == request

\* the back button acts on every step but the first
BackAllowed(step) == step > 0

\* variant: onDidHide with the test of isCompleted inverted
HideResolvesInverted(completed) == completed

\* onDidHide: only a run that did not complete is a cancellation
HideResolves(completed) == ~completed

\* a new updateView call makes every suspended one an older render
Older(pending) == [i \in 1..Len(pending) |-> FALSE]

\* ---- the three ways an updateView call ends
\* quickPick.items = items; quickPick.show()
Shown(qp, items) ==
    /\ quickPick' = [qp EXCEPT !.items = items, !.visible = TRUE]
    /\ uiItems' = items
    /\ uiStale' = FALSE
    /\ pendingRenders' = Older(pendingRenders)
    /\ UNCHANGED <<hidePending, result>>

\* resolve({status: "error"}); quickPick.hide(); return
Failed(qp, text, id) ==
    /\ result' = Resolve(result, ErrorResult(text, id))
    /\ quickPick' = [qp EXCEPT !.visible = FALSE]
    /\ hidePending' = (hidePending \/ qp.visible)
    /\ uiStale' = TRUE
    /\ pendingRenders' = Older(pendingRenders)
    /\ UNCHANGED uiItems

\* await getScriptList(...): the call is suspended with its local items
Suspended(qp) ==
    /\ Len(pendingRenders) < MaxPending
    /\ pendingRenders' = Append(Older(pendingRenders), TRUE)
    /\ quickPick' = qp
    /\ uiStale' = TRUE
    /\ UNCHANGED <<uiItems, hidePending, result>>

\* variant: an updateView that does not look at the length of osList
EmptyOsListIgnored(cfg, id) == FALSE

\* osList.length === 0
EmptyOsList(cfg, id) == cfg.planList[id] = {}

\* the head of updateView: step, errorMessage, value and items are reset
Cleared(qp, step) == [qp EXCEPT !.step = step + 1, !.value = <<>>, !.items = {}]

\* createInstanceMultiStep: updateView, called with currentStep = step
CreateUpdateView(step, pl, qp0, cfg) ==
    LET qp == Cleared(qp0, step) IN
    /\ errorMessage' = <<>>
    /\ CASE step = SelectPlan -> Shown(qp, PlanItems(cfg))
         [] step = SelectOS ->
              IF pl.id \notin DOMAIN cfg.planList
              THEN Failed(qp, "no OS list for plan", pl.id)
              ELSE IF EmptyOsList(cfg, pl.id)
              THEN Failed(qp, "plan has no OS", pl.id)
              ELSE Shown(qp, {backItem} \cup OsItems(cfg.planList[pl.id]))
         [] step = EnterTime ->
              Shown([qp EXCEPT !.value =
                        IF pl.time # NaN /\ pl.time # 0 THEN ToStr(pl.time) ELSE <<>>],
                    {backItem})
         [] step = SelectSSHKey ->
              Shown(qp, {backItem, NoKeyItem} \cup KeyItems(cfg))
         [] step = SelectBootScript ->
              IF cfg.bootScriptPath
              THEN Suspended(qp)
              ELSE Shown(qp, {backItem, NoScriptItem})
         [] OTHER -> Shown(qp, {})

\* rebulidInstanceMultiStep: updateView
RebuildUpdateView(step, info, qp0, cfg) ==
    LET qp == Cleared(qp0, step) IN
    /\ errorMessage' = <<>>
    /\ CASE step = RebuildSelectOS ->
              IF info.planId \notin DOMAIN cfg.planList
              THEN Failed(qp, "no OS list for plan", info.planId)
              ELSE IF EmptyOsList(cfg, info.planId)
              THEN Failed(qp, "plan has no OS", info.planId)
              ELSE Shown(qp, OsItems(cfg.planList[info.planId]))
         [] step = RebuildSelectSSHKey ->
              Shown(qp, {backItem, NoKeyItem} \cup KeyItems(cfg))
         [] step = RebuildSelectBootScript ->
              IF cfg.bootScriptPath
              THEN Suspended(qp)
              ELSE Shown(qp, {backItem, NoScriptItem})
         [] OTHER -> Shown(qp, {})

\* what a finished render shows as the value of its step: the input box of
\* the duration step carries quickPick.value; the list steps are given items
\* only, updateView assigns neither activeItems nor selectedItems
ShownValue(qp, w, step) ==
    IF w = "create" /\ step = EnterTime THEN qp.value ELSE <<>>

\* no updateView call: the picker keeps what it shows
NoRender(qp) ==
    /\ quickPick' = qp
    /\ UNCHANGED <<errorMessage, uiItems, pendingRenders, hidePending, result,
                   uiStale>>

\* plan is default_plan itself when the run was seeded: a write to plan is a
\* write to CONFIG.defaultPlan
StorePlan(pl) ==
    /\ plan' = pl
    /\ CONFIG' = IF seeded THEN [CONFIG EXCEPT !.defaultPlan = pl] ELSE CONFIG


\* showCreateInstanceMenu: default_detail, the detail line of the item that
\* creates with the default plan (<<>> is the text 'no default plan yet');
\* the plan is looked up in CONFIG.planList, the key in CONFIG.sshKeyList
default_detail(cfg) ==
    IF cfg.defaultPlan.id \in DOMAIN cfg.planList
    THEN <<[plan |-> cfg.defaultPlan.id,
            os |-> cfg.defaultPlan.os \in cfg.planList[cfg.defaultPlan.id],
            sshKey |-> cfg.defaultPlan.sshKey \in cfg.sshKeyList]>>
    ELSE <<>>

\* ----------------------------------------------------------------- actions
\* variant: a wizard that starts without looking at hasEvoPermission
PermissionIgnored(cfg) == FALSE

\* !CONFIG.hasEvoPermission
PermissionDenied(cfg) == ~cfg.hasEvoPermission

NoPlanAvailable(cfg) == DOMAIN cfg.planList = {}

\* what a re-check of the permissions (updateConfig) leaves in the store
Rechecked(cfg, perm, cat) ==
    IF perm
    THEN updateStateConfig(cfg,
            [hasEvoPermission |-> TRUE,
             evoPermissions |-> [max_time |-> MaxTime],
             planList |-> cat,
             sshKeyList |-> KeyIds])
    ELSE updateStateConfig(cfg, [hasEvoPermission |-> FALSE])

\* createInstanceMultiStep(default_plan?) up to the first updateView()
StartCreate(seed, recheck) ==
    /\ wizard = "none"
    /\ wizard' = "create"
    /\ startConfig' = <<CONFIG.hasEvoPermission>>
    /\ lastEv' = [NoEvent EXCEPT !.kind = "start"]
    /\ IF PermissionDenied(CONFIG) \/ NoPlanAvailable(CONFIG)
       THEN /\ result' =
                 IF PermissionDenied(CONFIG)
                 THEN ErrorResult("no EVO permission", NaN)
                 ELSE ErrorResult("no plan available", NaN)
            /\ IF recheck /\ refreshes < MaxRefresh
               THEN /\ refreshes' = refreshes + 1
                    /\ \E perm \in BOOLEAN, cat \in Catalogs :
                          CONFIG' = Rechecked(CONFIG, perm, cat)
               ELSE UNCHANGED <<CONFIG, refreshes>>
            /\ UNCHANGED <<seeded, plan, rebulidInfo, currentStep, errorMessage,
                           isCompleted, quickPick, uiItems, pendingRenders,
                           hidePending, uiStale, staleCount, wentBack, entered>>
       ELSE /\ seeded' = seed
            /\ plan' = IF seed THEN CONFIG.defaultPlan ELSE NaNPlan
            /\ currentStep' = SelectPlan
            /\ isCompleted' = FALSE
            /\ CreateUpdateView(SelectPlan, plan', NewQuickPick, CONFIG)
            /\ UNCHANGED <<CONFIG, refreshes, rebulidInfo, staleCount, wentBack,
                           entered>>

\* rebulidInstanceMultiStep(planId) up to the first updateView()
StartRebuild(planId) ==
    /\ wizard = "none"
    /\ wizard' = "rebuild"
    /\ startConfig' = <<CONFIG.hasEvoPermission>>
    /\ lastEv' = [NoEvent EXCEPT !.kind = "start"]
    /\ rebulidInfo' = [planId |-> planId, os |-> NaN, sshKey |-> NaN, bootScript |-> ""]
    /\ currentStep' = RebuildSelectOS
    /\ isCompleted' = FALSE
    /\ RebuildUpdateView(RebuildSelectOS, rebulidInfo', NewQuickPick, CONFIG)
    /\ UNCHANGED <<CONFIG, refreshes, seeded, plan, staleCount, wentBack, entered>>

\* the picker delivers events while it is open, and those still in flight
\* after hide() until onDidHide disposes it
Listening == ~quickPick.disposed /\ (quickPick.visible \/ hidePending)

\* an accept event issued against an older render than the last one started,
\* or after the code called hide()
Stale == uiStale \/ hidePending

Delivered ==
    /\ Listening
    /\ Stale => staleCount < MaxStale
    /\ staleCount' = IF Stale THEN staleCount + 1 ELSE staleCount

Selections == {<<>>} \cup {<<i>> : i \in uiItems}

AcceptEvent(sel, v) ==
    [kind |-> "accept", sel |-> sel, value |-> v, stale |-> uiStale,
     late |-> hidePending]

\* createInstanceMultiStep: quickPick.onDidAccept
CreateAccept(sel, v) ==
    LET qp == [quickPick EXCEPT !.value = v]
        max == CONFIG.evoPermissions.max_time
    IN
    /\ wizard = "create"
    /\ Delivered
    /\ UNCHANGED <<wizard, seeded, rebulidInfo, refreshes, startConfig>>
    /\ IF sel = <<backItem>>
       THEN /\ lastEv' = AcceptEvent(sel, v)
            /\ UNCHANGED <<isCompleted, entered>>
            /\ IF BackAllowed(currentStep)
               THEN /\ currentStep' = BackStep(currentStep)
                    /\ wentBack' = TRUE
                    /\ StorePlan(AfterBack(plan))
                    /\ CreateUpdateView(currentStep', plan', qp, CONFIG)
               ELSE /\ UNCHANGED <<currentStep, plan, CONFIG, wentBack>>
                    /\ NoRender(qp)
       ELSE IF CreateStepValid(currentStep, sel, v, max)
       THEN /\ lastEv' = AcceptEvent(sel, v)
            /\ StorePlan(CreateStepWrite(currentStep, plan, sel, v, max))
            /\ UNCHANGED wentBack
            /\ entered' = [entered EXCEPT ![currentStep] =
                              IF currentStep = EnterTime THEN <<v>> ELSE <<sel>>]
            /\ IF currentStep = SelectBootScript
               THEN /\ isCompleted' = TRUE
                    /\ result' = Resolve(result, CompletedResult(plan'))
                    /\ quickPick' = [qp EXCEPT !.visible = FALSE]
                    /\ hidePending' = (hidePending \/ qp.visible)
                    /\ UNCHANGED <<currentStep, errorMessage, uiItems,
                                   pendingRenders, uiStale>>
               ELSE /\ currentStep' = currentStep + 1
                    /\ CreateUpdateView(currentStep', plan', qp, CONFIG)
                    /\ UNCHANGED isCompleted
       ELSE IF currentStep = EnterTime
       THEN \* errorMessage is set, then updateView() runs for the same step
            /\ lastEv' = AcceptEvent(sel, v)
            /\ CreateUpdateView(currentStep, plan, qp, CONFIG)
            /\ UNCHANGED <<plan, CONFIG, currentStep, isCompleted, wentBack, entered>>
       ELSE /\ lastEv' = AcceptEvent(sel, v)
            /\ NoRender(qp)
            /\ UNCHANGED <<plan, CONFIG, currentStep, isCompleted, wentBack, entered>>

\* rebulidInstanceMultiStep: quickPick.onDidAccept
RebuildAccept(sel) ==
    LET qp == quickPick IN
    /\ wizard = "rebuild"
    /\ Delivered
    /\ lastEv' = AcceptEvent(sel, quickPick.value)
    /\ UNCHANGED <<wizard, seeded, plan, CONFIG, refreshes, startConfig>>
    /\ IF sel = <<backItem>>
       THEN /\ UNCHANGED <<isCompleted, entered>>
            /\ IF BackAllowed(currentStep)
               THEN /\ currentStep' = BackStep(currentStep)
                    /\ wentBack' = TRUE
                    /\ rebulidInfo' = AfterBack(rebulidInfo)
                    /\ RebuildUpdateView(currentStep', rebulidInfo', qp, CONFIG)
               ELSE /\ UNCHANGED <<currentStep, rebulidInfo, wentBack>>
                    /\ NoRender(qp)
       ELSE IF RebuildStepValid(currentStep, sel)
       THEN /\ rebulidInfo' = RebuildStepWrite(currentStep, rebulidInfo, sel)
            /\ UNCHANGED wentBack
            /\ entered' = [entered EXCEPT ![currentStep] = <<sel>>]
            /\ IF currentStep = RebuildSelectBootScript
               THEN /\ isCompleted' = TRUE
                    /\ result' = Resolve(result, CompletedResult(rebulidInfo'))
                    /\ quickPick' = [qp EXCEPT !.visible = FALSE]
                    /\ hidePending' = (hidePending \/ qp.visible)
                    /\ UNCHANGED <<currentStep, errorMessage, uiItems,
                                   pendingRenders, uiStale>>
               ELSE /\ currentStep' = currentStep + 1
                    /\ RebuildUpdateView(currentStep', rebulidInfo', qp, CONFIG)
                    /\ UNCHANGED isCompleted
       ELSE /\ NoRender(qp)
            /\ UNCHANGED <<rebulidInfo, currentStep, isCompleted, wentBack, entered>>

\* the rest of a suspended updateView: items.push(...scripts);
\* quickPick.items = items; quickPick.show()
ResumeRender(i, scripts) ==
    /\ wizard # "none"
    /\ i \in 1..Len(pendingRenders)
    /\ LET items == {backItem, NoScriptItem} \cup ScriptItems(scripts) IN
       /\ quickPick' = [quickPick EXCEPT !.items = items, !.visible = TRUE]
       /\ uiItems' = items
    /\ uiStale' = ~pendingRenders[i]
    /\ pendingRenders' =
         [j \in 1..(Len(pendingRenders) - 1) |->
            IF j < i THEN pendingRenders[j] ELSE pendingRenders[j + 1]]
    /\ lastEv' = [NoEvent EXCEPT !.kind = "render"]
    /\ UNCHANGED <<CONFIG, refreshes, wizard, seeded, plan, rebulidInfo, currentStep,
                   errorMessage, isCompleted, hidePending, result, startConfig,
                   staleCount, wentBack, entered>>

\* quickPick.onDidHide (both wizards): ESC, or the hide() the code called
OnDidHide ==
    /\ wizard # "none"
    /\ Listening
    /\ result' = IF HideResolves(isCompleted)
                 THEN Resolve(result, CancelledResult)
                 ELSE result
    /\ quickPick' = [quickPick EXCEPT !.visible = FALSE, !.disposed = TRUE]
    /\ hidePending' = FALSE
    /\ lastEv' = [NoEvent EXCEPT !.kind = "hide", !.late = hidePending]
    /\ UNCHANGED <<CONFIG, refreshes, wizard, seeded, plan, rebulidInfo, currentStep,
                   errorMessage, isCompleted, uiItems, pendingRenders, uiStale,
                   staleCount, startConfig, wentBack, entered>>

\* showCreateInstanceMenu, the item that creates with the default plan:
\* when the plan of CONFIG.defaultPlan is found in CONFIG.planList,
\* createInstance(CONFIG.defaultPlan) is called; the menu is open while no
\* wizard run is in progress
CreateWithDefault ==
    /\ result.status # "pending" \/ wizard = "none"
    /\ default_detail(CONFIG) # <<>>
    /\ lastEv' = [kind |-> "createInstance", sel |-> <<>>,
                  value |-> <<CONFIG.defaultPlan>>, stale |-> FALSE, late |-> FALSE]
    /\ UNCHANGED <<CONFIG, refreshes, wizard, seeded, plan, rebulidInfo,
                   currentStep, errorMessage, isCompleted, quickPick, uiItems,
                   pendingRenders, hidePending, result, uiStale, staleCount,
                   startConfig, wentBack, entered>>

WizardNext ==
    \/ \E perm \in BOOLEAN, cat \in Catalogs : Refresh(perm, cat)
    \/ \E seed \in BOOLEAN, recheck \in BOOLEAN : StartCreate(seed, recheck)
    \/ \E planId \in PlanIds : StartRebuild(planId)
    \/ \E sel \in Selections :
          \E v \in IF wizard = "create" /\ currentStep = EnterTime
                   THEN Values \cup {quickPick.value}
                   ELSE {quickPick.value} :
             CreateAccept(sel, v)
    \/ \E sel \in Selections : RebuildAccept(sel)
    \/ \E i \in 1..MaxPending, scripts \in SUBSET ScriptNames : ResumeRender(i, scripts)
    \/ OnDidHide
    \/ CreateWithDefault

Next == WizardNext /\ UNCHANGED <<trackerVars, opVars, storeVars, refreshVars, instanceVars>>

Spec == Init /\ [][Next]_vars

\* ------------------------------------------------- the duration step alone
\* The create wizard at its duration step, plan and OS chosen, to be given
\* every text of DurationTexts.
InitDuration ==
    /\ CONFIG \in
         [hasEvoPermission : {TRUE},
          evoPermissions : {[max_time |-> MaxTime]},
          planList : {[p \in PlanIds |-> IF p = 1 THEN OsIds ELSE {}]},
          sshKeyList : {KeyIds},
          defaultPlan : DefaultPlans,
          bootScriptPath : BOOLEAN,
          instanceList : {<<>>},
          instanceState : {<<>>},
          doNotRemindExpiration : {FALSE},
          updateStatusBarInterval : {<<>>}]
    /\ refreshes = 1
    /\ wizard = "create"
    /\ seeded = FALSE
    /\ \E o \in OsIds :
          /\ plan = [NaNPlan EXCEPT !.id = 1, !.os = o]
          /\ entered = [s \in 0..4 |->
                          CASE s = SelectPlan ->
                                 << <<[label |-> "plan", description |-> <<1>>]>> >>
                            [] s = SelectOS ->
                                 << <<[label |-> "os", description |-> <<o>>]>> >>
                            [] OTHER -> <<>>]
          /\ lastEv = [NoEvent EXCEPT !.kind = "accept",
                          !.sel = <<[label |-> "os", description |-> <<o>>]>>]
    /\ rebulidInfo = [planId |-> NaN, os |-> NaN, sshKey |-> NaN, bootScript |-> ""]
    /\ currentStep = EnterTime
    /\ errorMessage = <<>>
    /\ isCompleted = FALSE
    /\ quickPick = [step |-> EnterTime + 1, value |-> <<>>, items |-> {backItem},
                    visible |-> TRUE, disposed |-> FALSE]
    /\ uiItems = {backItem}
    /\ pendingRenders = <<>>
    /\ hidePending = FALSE
    /\ result = Pending
    /\ uiStale = FALSE
    /\ staleCount = 0
    /\ wentBack = FALSE
    /\ startConfig = <<TRUE>>
    /\ TrackerIdle
    /\ InstanceIdle
    /\ remote = {}

NextDuration ==
    \/ /\ currentStep = EnterTime
       /\ \E v \in DurationTexts : CreateAccept(<<>>, v)
       /\ UNCHANGED <<trackerVars, opVars, storeVars, refreshVars, instanceVars>>
    \/ /\ currentStep = SelectSSHKey
       /\ CreateAccept(<<backItem>>, quickPick.value)
       /\ UNCHANGED <<trackerVars, opVars, storeVars, refreshVars, instanceVars>>

SpecDuration == InitDuration /\ [][NextDuration]_vars

\* ------------------------------------------------------ the polling loops
\* maxAttempts of the loops on the instance state, and of pollBootScriptResult
maxAttempts == 60

pollMaxAttempts == 180

PowerActions == {"boot", "shutdown", "restart", "poweroff"}

FetchedStates == {"running", "stopped", "undefined", "error"}

CommandResults == {"output", "empty", "202", "error"}

\* the state a power action waits for
PowerTarget(action) ==
    IF action = "boot" \/ action = "restart" THEN "running" ELSE "stopped"

\* vscode.window.show{Information,Warning,Error}Message
Notify(level, text, detail) ==
    /\ level = "error" => notifications.error < MaxErrors
    /\ notifications' = [notifications EXCEPT ![level] = @ + 1]
    /\ lastNotice' = <<level, text, detail>>

Silent == UNCHANGED <<notifications, lastNotice>>

\* createInstance / rebulidInstanceItems: the loop starts with delay(2000)
StartInstanceTracker(kind) ==
    /\ tracker = "none"
    /\ kind \in {"create", "rebuild"}
    /\ tracker' = kind
    /\ state' = "running"
    /\ attempts' = 0
    /\ trackerPc' = "delay0"
    /\ UNCHANGED <<instanceState, fetches, everTrue, hardError, trackerEnd,
                   firstTrue, lastPoll, slept,
                   inFlight, pendingTimers>>

\* powerInstanceItems: the loop starts with a fetch
StartPowerTracker(action) ==
    /\ tracker = "none"
    /\ tracker' = "power"
    /\ state' = PowerTarget(action)
    /\ attempts' = 0
    /\ trackerPc' = "fetch0"
    /\ UNCHANGED <<instanceState, fetches, everTrue, hardError, trackerEnd,
                   firstTrue, lastPoll, slept,
                   inFlight, pendingTimers>>

\* pollBootScriptResult
StartScriptTracker ==
    /\ tracker = "none"
    /\ tracker' = "script"
    /\ attempts' = 0
    /\ trackerPc' = "test"
    /\ UNCHANGED <<state, instanceState, fetches, everTrue, hardError, trackerEnd,
                   firstTrue, lastPoll, slept,
                   inFlight, pendingTimers>>

\* delay(...): setTimeout is called and the loop awaits its promise
TrackerSleep ==
    /\ trackerPc \in {"delay0", "delay"}
    /\ trackerPc' = IF trackerPc = "delay0" THEN "sleeping0" ELSE "sleeping"
    /\ pendingTimers' = pendingTimers + 1
    /\ Silent
    /\ UNCHANGED <<tracker, attempts, instanceState, state, fetches, everTrue,
                   hardError, trackerEnd, firstTrue, lastPoll, slept, inFlight>>

\* variant: a loop that goes on while its timer is still pending
AfterTimerLeaked(pending) == pending

\* the timer runs out: its callback resolves the promise the loop awaits
AfterTimer(pending) == pending - 1

\* await delay(...): the delay has run out
TrackerDelay ==
    /\ trackerPc \in {"sleeping0", "sleeping"}
    /\ trackerPc' = CASE trackerPc = "sleeping0" -> "fetch0"
                      [] tracker = "script" -> "test"
                      [] OTHER -> "fetch"
    /\ pendingTimers' = AfterTimer(pendingTimers)
    /\ slept' = TRUE
    /\ Silent
    /\ UNCHANGED <<tracker, attempts, instanceState, state, fetches, everTrue,
                   hardError, trackerEnd, firstTrue, lastPoll, inFlight>>

\* getInstanceState(...) / getCommandResult(...) is called and awaited
IssueFetch ==
    /\ trackerPc \in {"fetch0", "fetch"}
    /\ trackerPc' = IF trackerPc = "fetch0" THEN "fetching0" ELSE "fetching"
    /\ inFlight' = inFlight + 1
    /\ Silent
    /\ UNCHANGED <<tracker, attempts, instanceState, state, fetches, everTrue,
                   hardError, trackerEnd, firstTrue, lastPoll, slept,
                   pendingTimers>>

\* instanceState = await aliceService.getInstanceState(...), before the loop
\* and in its body; getInstanceState catches an error of the call, shows
\* it and returns undefined
InstanceFetch(s) ==
    /\ tracker \in {"create", "rebuild", "power"}
    /\ trackerPc \in {"fetching0", "fetching"}
    /\ instanceState' = IF s = "error" THEN "undefined" ELSE s
    /\ lastPoll' = s
    /\ inFlight' = inFlight - 1
    /\ slept' = FALSE
    /\ UNCHANGED pendingTimers
    /\ IF s = "error"
       THEN Notify("error", "instance state fetch failed", s)
       ELSE Silent
    /\ fetches' = fetches + 1
    /\ everTrue' = (everTrue \/ s = state)
    /\ firstTrue' = IF firstTrue = 0 /\ s = state THEN fetches' ELSE firstTrue
    /\ attempts' = IF trackerPc = "fetching" THEN attempts + 1 ELSE attempts
    /\ trackerPc' = "test"
    /\ UNCHANGED <<tracker, state, hardError, trackerEnd>>

\* variant: a loop condition that does not look at the fetched state
KeepsPollingBlind(fetched, target, n) == n < maxAttempts

\* instanceState?.state?.state !== state && attempts < maxAttempts
KeepsPolling(fetched, target, n) == fetched # target /\ n < maxAttempts

\* the while loop of the instance state, and the progress report after it
InstanceTest ==
    /\ tracker \in {"create", "rebuild", "power"}
    /\ trackerPc = "test"
    /\ IF KeepsPolling(instanceState, state, attempts)
       THEN /\ trackerPc' = "delay"
            /\ UNCHANGED trackerEnd
       ELSE /\ trackerPc' = "done"
            /\ trackerEnd' = "reported success"
    /\ Silent
    /\ UNCHANGED <<tracker, attempts, instanceState, state, fetches, everTrue,
                   hardError, firstTrue, lastPoll, slept,
                   inFlight, pendingTimers>>

\* while (attempts < maxAttempts) of pollBootScriptResult
ScriptTest ==
    /\ tracker = "script"
    /\ trackerPc = "test"
    /\ IF attempts < pollMaxAttempts
       THEN /\ trackerPc' = "fetch"
            /\ Silent
            /\ UNCHANGED trackerEnd
       ELSE /\ trackerPc' = "done"
            /\ trackerEnd' = "timeout"
            /\ Notify("warning", "script result timed out", "")
    /\ UNCHANGED <<tracker, attempts, instanceState, state, fetches, everTrue,
                   hardError, firstTrue, lastPoll, slept,
                   inFlight, pendingTimers>>

\* variant: a loop that takes every error for 'still running'
HardFailureNever(r) == FALSE

\* the answer is an error other than 'still running' (status 202)
HardFailure(r) == r = "error"

\* the body of the loop of pollBootScriptResult
ScriptFetch(r) ==
    /\ tracker = "script"
    /\ trackerPc = "fetching"
    /\ fetches' = fetches + 1
    /\ lastPoll' = r
    /\ inFlight' = inFlight - 1
    /\ slept' = FALSE
    /\ UNCHANGED pendingTimers
    /\ CASE r = "output" ->
              /\ everTrue' = TRUE
              /\ firstTrue' = IF firstTrue = 0 THEN fetches' ELSE firstTrue
              /\ trackerPc' = "done"
              /\ trackerEnd' = "completed"
              /\ Notify("info", "script succeeded", "")
              /\ UNCHANGED <<attempts, hardError>>
         [] HardFailure(r) ->
              /\ hardError' = TRUE
              /\ trackerPc' = "done"
              /\ trackerEnd' = "failed"
              /\ Notify("error", "script failed", r)
              /\ UNCHANGED <<attempts, everTrue, firstTrue>>
         [] OTHER ->
              /\ attempts' = attempts + 1
              /\ trackerPc' = "delay"
              /\ Silent
              /\ UNCHANGED <<everTrue, hardError, trackerEnd, firstTrue>>
    /\ UNCHANGED <<tracker, instanceState, state>>

NextTracker ==
    /\ UNCHANGED <<CONFIG, refreshes, wizardVars, opVars, storeVars, refreshVars,
                   instanceVars>>
    /\ \/ \E kind \in {"create", "rebuild"} : StartInstanceTracker(kind) /\ Silent
       \/ \E action \in PowerActions : StartPowerTracker(action) /\ Silent
       \/ StartScriptTracker /\ Silent
       \/ TrackerSleep
       \/ TrackerDelay
       \/ IssueFetch
       \/ \E s \in FetchedStates : InstanceFetch(s)
       \/ InstanceTest
       \/ ScriptTest
       \/ \E r \in CommandResults : ScriptFetch(r)

SpecTracker == Init /\ [][NextTracker]_vars

\* ------------------------------------------------ the operations of the menu
Operations == {"create", "rebuild", "power", "renew", "delete"}

\* the answers of the remote call: code 200 with data, another code with or
\* without data, or a rejected promise
Responses == {"ok", "badcode", "nodata", "rejected"}

AutoConnects == {"false", "host", "nohost"}

\* the .then callback of the operation is run: the promise did not reject
Answered(r) == r # "rejected"

\* the .then callback of the operation enters its polling loop:
\* createInstance reads response.data.data without a test of the code (and
\* throws when there is none); the others test response.data?.code === 200
EntersTracker(o, r) ==
    CASE o = "create" -> r \in {"ok", "badcode"}
      [] o \in {"rebuild", "power"} -> r = "ok"
      [] OTHER -> FALSE

\* the remote call of the operation is answered
OpCall(o, r, uid, ac, action) ==
    /\ op = "none"
    /\ tracker = "none"
    /\ op' = o
    /\ response' = r
    /\ autoConnect' = ac
    /\ bootScriptUid' = (uid /\ o \in {"create", "rebuild"} /\ EntersTracker(o, r))
    /\ opFailure' = IF r = "ok" THEN "none" ELSE "mutation"
    /\ IF EntersTracker(o, r)
       THEN /\ opPc' = "tracking"
            /\ Silent
            /\ IF o = "power"
               THEN StartPowerTracker(action)
               ELSE StartInstanceTracker(o)
       ELSE /\ UNCHANGED <<tracker, trackerPc, attempts, instanceState, state,
                           fetches, everTrue, hardError, trackerEnd, firstTrue,
                           lastPoll, slept, inFlight, pendingTimers>>
            /\ CASE ~Answered(r) \/ (o = "create" /\ r = "nodata") ->
                      \* .catch: the call rejected, or the callback threw
                      /\ Notify("error", "operation failed", o)
                      /\ opPc' = "done"
                 [] o = "power" ->
                      \* the message after the if block
                      /\ Notify("info", "operation succeeded", o)
                      /\ opPc' = "done"
                 [] o \in {"renew", "delete"} /\ r = "ok" ->
                      /\ Silent
                      /\ opPc' = "update"
                 [] OTHER ->
                      /\ Silent
                      /\ opPc' = "done"

\* the loop on the instance state has ended
OpAfterTracker ==
    /\ opPc = "tracking"
    /\ tracker \in {"create", "rebuild", "power"}
    /\ trackerPc = "done"
    /\ opFailure' = IF opFailure = "none" /\ ~everTrue THEN "timeout" ELSE opFailure
    /\ UNCHANGED <<op, response, bootScriptUid, autoConnect>>
    /\ CASE op = "power" ->
              /\ Notify("info", "operation succeeded", op)
              /\ opPc' = "done"
              /\ UNCHANGED <<tracker, trackerPc, attempts, instanceState, state,
                             fetches, everTrue, hardError, trackerEnd, firstTrue,
                             lastPoll, slept, inFlight, pendingTimers>>
         [] bootScriptUid ->
              \* await pollBootScriptResult(...)
              /\ Silent
              /\ opPc' = "script"
              /\ tracker' = "script"
              /\ trackerPc' = "test"
              /\ attempts' = 0
              /\ fetches' = 0
              /\ everTrue' = FALSE
              /\ hardError' = FALSE
              /\ firstTrue' = 0
              /\ lastPoll' = "none"
              /\ slept' = FALSE
              /\ UNCHANGED <<inFlight, pendingTimers>>
              /\ trackerEnd' = "none"
              /\ UNCHANGED <<instanceState, state>>
         [] OTHER ->
              /\ Silent
              /\ opPc' = "update"
              /\ UNCHANGED <<tracker, trackerPc, attempts, instanceState, state,
                             fetches, everTrue, hardError, trackerEnd, firstTrue,
                             lastPoll, slept, inFlight, pendingTimers>>

\* pollBootScriptResult has returned
OpAfterScript ==
    /\ opPc = "script"
    /\ tracker = "script"
    /\ trackerPc = "done"
    /\ opPc' = "update"
    /\ opFailure' = CASE opFailure # "none" -> opFailure
                       [] trackerEnd = "failed" -> "script failed"
                       [] trackerEnd = "timeout" -> "script timeout"
                       [] OTHER -> "none"
    /\ Silent
    /\ UNCHANGED <<op, response, bootScriptUid, autoConnect, tracker, trackerPc,
                   attempts, instanceState, state, fetches, everTrue, hardError,
                   trackerEnd, firstTrue, lastPoll, slept,
                   inFlight, pendingTimers>>

\* await updateConfig("instance"): a failed fetch of the instance list is
\* shown by updateConfig itself
OpUpdateConfig(listed) ==
    /\ opPc = "update"
    /\ opPc' = "final"
    /\ IF listed
       THEN Silent
       ELSE Notify("error", "instance list fetch failed", op)
    /\ UNCHANGED <<op, response, bootScriptUid, autoConnect, opFailure, tracker,
                   trackerPc, attempts, instanceState, state, fetches, everTrue,
                   hardError, trackerEnd, firstTrue, lastPoll, slept,
                   inFlight, pendingTimers>>

\* the end of the .then callback: auto-connect, or the message of success
OpFinal ==
    /\ opPc = "final"
    /\ opPc' = "done"
    /\ CASE op \in {"renew", "delete"} ->
              Notify("info", "operation succeeded", op)
         [] autoConnect = "host" -> Silent
         [] autoConnect = "nohost" -> Notify("error", "no ssh host configured", op)
         [] ~bootScriptUid -> Notify("info", "operation succeeded", op)
         [] OTHER -> Silent
    /\ UNCHANGED <<op, response, bootScriptUid, autoConnect, opFailure, tracker,
                   trackerPc, attempts, instanceState, state, fetches, everTrue,
                   hardError, trackerEnd, firstTrue, lastPoll, slept,
                   inFlight, pendingTimers>>

\* a step of the polling loop the operation is waiting for
OpPolling ==
    /\ opPc \in {"tracking", "script"}
    /\ UNCHANGED opVars
    /\ \/ TrackerSleep
       \/ TrackerDelay
       \/ IssueFetch
       \/ \E s \in FetchedStates : InstanceFetch(s)
       \/ InstanceTest
       \/ ScriptTest
       \/ \E r \in CommandResults : ScriptFetch(r)

NextOps ==
    /\ UNCHANGED <<CONFIG, refreshes, wizardVars, storeVars, refreshVars, instanceVars>>
    /\ \/ \E o \in Operations, r \in Responses, uid \in BOOLEAN,
             ac \in AutoConnects, action \in PowerActions :
             OpCall(o, r, uid, ac, action)
       \/ OpAfterTracker
       \/ OpAfterScript
       \/ \E listed \in BOOLEAN : OpUpdateConfig(listed)
       \/ OpFinal
       \/ OpPolling

SpecOps == Init /\ [][NextOps]_vars

\* ------------------------------------------------ updateStateConfig alone
\* the newState objects the callers pass: one field, or several at once
Partials ==
    {[hasEvoPermission |-> b] : b \in BOOLEAN}
      \cup {[planList |-> c] : c \in Catalogs}
      \cup {[sshKeyList |-> k] : k \in {{}, KeyIds}}
      \cup {[hasEvoPermission |-> TRUE, evoPermissions |-> [max_time |-> m]] :
               m \in {1, MaxTime}}
      \cup {[planList |-> c, sshKeyList |-> k] :
               c \in Catalogs \ {<<>>}, k \in {KeyIds}}

\* one call updateStateConfig(newState)
StoreUpdate(newState) ==
    /\ Len(updates) < MaxUpdates
    /\ CONFIG' = updateStateConfig(CONFIG, newState)
    /\ updates' = Append(updates, newState)
    /\ snapshots' = Append(snapshots, CONFIG)
    /\ UNCHANGED <<refreshes, wizardVars, trackerVars, opVars, refreshVars,
                   instanceVars>>

NextStore == \E newState \in Partials : StoreUpdate(newState)

SpecStore == Init /\ [][NextStore]_vars

\* ------------------------------------------- updateConfig, call by call
InstanceAnswers == {"ok", "401", "failed"}

PermissionAnswers == {"granted", "denied", "failed"}

CatalogAnswers == {"ok", "failed"}

\* what a getPlanToOS may deliver: nothing, one OS, every OS
FetchedOs == {{}, {1}, OsIds}

\* plan.os of a plan of the getPlanList answer: <<>> when it is no string,
\* else the ids of the string "a|b" (here: every OS but the first)
AllowLists == {<<>>, <<OsIds \ {1}>>}

Call(name, p) == [call |-> name, plan |-> p]

RECURSIVE OsCalls(_)
OsCalls(n) == IF n = 0 THEN <<>> ELSE Append(OsCalls(n - 1), Call("getPlanToOS", n))

\* updateConfig is entered with credentials present and flag "all"
RefreshStart ==
    /\ rPc \in {"idle", "done"}
    /\ refreshes < MaxRefresh
    /\ refreshes' = refreshes + 1
    /\ rPc' = "instances"
    /\ rPlans' = <<>>
    /\ rLog' = <<>>
    /\ rOut' = NoAnswers
    /\ rBefore' = <<CONFIG>>
    /\ UNCHANGED CONFIG

\* getInstanceList: a 401 ends the refresh, any other failure is reported
\* and the refresh goes on (the instance list is not part of CONFIG here)
FetchInstanceList(a) ==
    /\ rPc = "instances"
    /\ rLog' = Append(rLog, Call("getInstanceList", 0))
    /\ rOut' = [rOut EXCEPT !.instances = a]
    /\ rPc' = IF a = "401" THEN "done" ELSE "permission"
    /\ UNCHANGED <<CONFIG, refreshes, rPlans, rBefore>>

ProceedsAlways(cfg) == TRUE

\* if (!CONFIG.hasEvoPermission) return
Proceeds(cfg) == cfg.hasEvoPermission

\* getEVOPermissions: status 200 stores the permissions and the flag, a 400
\* stores the flag false, any other failure is only logged
FetchPermissions(a) ==
    /\ rPc = "permission"
    /\ rLog' = Append(rLog, Call("getEVOPermissions", 0))
    /\ rOut' = [rOut EXCEPT !.permission = a]
    /\ CONFIG' =
         CASE a = "granted" ->
                updateStateConfig(CONFIG,
                  [evoPermissions |-> [max_time |-> MaxTime],
                   hasEvoPermission |-> TRUE])
           [] a = "denied" ->
                updateStateConfig(CONFIG, [hasEvoPermission |-> FALSE])
           [] OTHER -> CONFIG
    /\ rPc' = IF Proceeds(CONFIG') THEN "plans" ELSE "done"
    /\ UNCHANGED <<refreshes, rPlans, rBefore>>

\* getPlanList rejected: the handler only logs
FetchPlanListFailed ==
    /\ rPc = "plans"
    /\ rLog' = Append(rLog, Call("getPlanList", 0))
    /\ rOut' = [rOut EXCEPT !.plans = "failed"]
    /\ rPc' = "keys"
    /\ UNCHANGED <<CONFIG, refreshes, rPlans, rBefore>>

\* getPlanList answered with n plans: an empty list is stored at once,
\* otherwise one getPlanToOS per plan is issued and awaited together
FetchPlanList(n, allow) ==
    /\ rPc = "plans"
    /\ rLog' = Append(rLog, Call("getPlanList", 0)) \o OsCalls(n)
    /\ rOut' = [rOut EXCEPT !.plans = "ok", !.allow = allow]
    /\ rPlans' = [p \in 1..n |-> <<>>]
    /\ IF n = 0
       THEN /\ CONFIG' = updateStateConfig(CONFIG, [planList |-> <<>>])
            /\ rPc' = "keys"
       ELSE /\ rPc' = "os"
            /\ UNCHANGED CONFIG
    /\ UNCHANGED <<refreshes, rBefore>>

\* variant: a failed fetch leaves the plan with every OS
SettledOsUnfiltered(a, fetched, originalOsIds) == fetched

\* variant: the OS ids the plan came with are ignored
SettledOsAll(a, fetched, originalOsIds) == IF a = "ok" THEN fetched ELSE {}

\* plan.os after its getPlanToOS has settled: every OS fetched, or those of
\* them named by the ids the plan came with
SettledOs(a, fetched, originalOsIds) ==
    IF a = "ok"
    THEN IF originalOsIds = <<>> THEN fetched ELSE fetched \cap originalOsIds[1]
    ELSE {}

AllSettled(plans) == \A p \in DOMAIN plans : plans[p] # <<>>

\* plan.os as getPlanList sent it, before the OS fetch of the plan has
\* settled: the ids as text, not a list of OS
RawOs == {NaN}

\* the planList handed to updateStateConfig: each plan with its os field
\* as it is at that moment
Published(plans) ==
    [q \in DOMAIN plans |-> IF plans[q] = <<>> THEN RawOs ELSE plans[q][1]]

\* variant: the list is stored each time one OS fetch settles
PublishesEach(plans) == TRUE

\* await Promise.all(...): the list is stored once every OS fetch settled
Publishes(plans) == AllSettled(plans)

\* variant: the key list is fetched without awaiting the OS fetches
AfterSettleEager(plans) == "keys"

\* await Promise.all(...): the refresh goes on once every OS fetch settled
AfterSettle(plans) == IF AllSettled(plans) THEN "keys" ELSE "os"

\* one getPlanToOS settles; when the last one has, the list is stored
SettleOs(p, a, fetched) ==
    /\ rPc = "os"
    /\ p \in DOMAIN rPlans
    /\ rPlans[p] = <<>>
    /\ a = "failed" => fetched = OsIds
    /\ rPlans' = [rPlans EXCEPT ![p] = <<SettledOs(a, fetched, rOut.allow[p])>>]
    /\ rOut' = [rOut EXCEPT
                  !.osFailed = IF a = "failed" THEN @ \cup {p} ELSE @,
                  !.osFetched = (p :> fetched) @@ @]
    /\ IF Publishes(rPlans')
       THEN CONFIG' = updateStateConfig(CONFIG, [planList |-> Published(rPlans')])
       ELSE UNCHANGED CONFIG
    /\ rPc' = AfterSettle(rPlans')
    /\ UNCHANGED <<refreshes, rLog, rBefore>>

\* getSSHKeyList: status 200 stores the list, a failure is only logged
FetchSSHKeyList(a, keys) ==
    /\ rPc = "keys"
    /\ a = "failed" => keys = {}
    /\ rLog' = Append(rLog, Call("getSSHKeyList", 0))
    /\ rOut' = [rOut EXCEPT !.keys = a]
    /\ CONFIG' =
         IF a = "ok"
         THEN updateStateConfig(CONFIG, [sshKeyList |-> keys])
         ELSE CONFIG
    /\ rPc' = "done"
    /\ UNCHANGED <<refreshes, rPlans, rBefore>>

NextRefresh ==
    \/ RefreshStart /\ UNCHANGED <<wizardVars, trackerVars, opVars, storeVars, instanceVars>>
    \/ \E a \in InstanceAnswers :
         FetchInstanceList(a)
           /\ UNCHANGED <<wizardVars, trackerVars, opVars, storeVars, instanceVars>>
    \/ \E a \in PermissionAnswers :
         FetchPermissions(a)
           /\ UNCHANGED <<wizardVars, trackerVars, opVars, storeVars, instanceVars>>
    \/ FetchPlanListFailed
         /\ UNCHANGED <<wizardVars, trackerVars, opVars, storeVars, instanceVars>>
    \/ \E n \in 0..MaxPlan :
         \E allow \in [1..n -> AllowLists] :
            FetchPlanList(n, allow)
           /\ UNCHANGED <<wizardVars, trackerVars, opVars, storeVars, instanceVars>>
    \/ \E p \in PlanIds, a \in CatalogAnswers, fetched \in FetchedOs :
         SettleOs(p, a, fetched)
           /\ UNCHANGED <<wizardVars, trackerVars, opVars, storeVars, instanceVars>>
    \/ \E a \in CatalogAnswers, keys \in {{}, KeyIds} :
         FetchSSHKeyList(a, keys)
           /\ UNCHANGED <<wizardVars, trackerVars, opVars, storeVars, instanceVars>>

SpecRefresh == Init /\ [][NextRefresh]_vars

\* --------------------------------- the tracked instance and its lifecycle
InstanceIds == 1..MaxInstances

\* response.data.data of getInstanceList: the provider's instances, in order
RECURSIVE Listing(_)
Listing(S) ==
    IF S = {} THEN <<>>
    ELSE LET m == CHOOSE x \in S : \A y \in S : x <= y
         IN  <<m>> \o Listing(S \ {m})

Wrote(fields, who) ==
    writers' = [f \in StoreFields |->
                   IF f \in fields THEN writers[f] \cup {who} ELSE writers[f]]

InstanceInit == Activated /\ remote \in SUBSET InstanceIds

\* createInstance(plan), answered: updateStateConfig({instanceList: [instance]})
InstCreate(id) ==
    /\ iPc = "idle"
    /\ created < MaxCreate
    /\ id \notin remote
    /\ remote' = remote \cup {id}
    /\ created' = created + 1
    /\ CONFIG' = updateStateConfig(CONFIG, [instanceList |-> <<id>>])
    /\ Wrote({"instanceList"}, "menu")
    /\ sinceDelete' = FALSE
    /\ iEv' = "create"
    /\ UNCHANGED <<timers, iPc, iTarget, listFetches>>

\* instanceList || []
StoredListing(list) == list

\* updateConfig: the instance list part
InstRefresh(a) ==
    /\ iEv' = "refresh"
    /\ IF a = "ok"
       THEN /\ CONFIG' = updateStateConfig(CONFIG,
                            [instanceList |-> StoredListing(Listing(remote))])
            /\ Wrote({"instanceList"}, "service")
       ELSE UNCHANGED <<CONFIG, writers>>
    /\ UNCHANGED <<remote, timers, iPc, iTarget, listFetches, created,
                   sinceDelete>>

\* deleteInstanceItems: the user confirmed and deleteInstance was answered
DeleteAnswered(ok) ==
    /\ iPc = "idle"
    /\ CONFIG.instanceList # <<>>
    /\ iEv' = "delete"
    /\ IF ok
       THEN /\ remote' = remote \ {CONFIG.instanceList[1]}
            /\ iTarget' = CONFIG.instanceList[1]
            /\ iPc' = "refreshing"
       ELSE UNCHANGED <<remote, iTarget, iPc>>
    /\ UNCHANGED <<CONFIG, timers, listFetches, created, writers, sinceDelete>>

\* deleteInstanceItems: await updateConfig("instance")
DeleteRefreshed(a) ==
    /\ iPc = "refreshing"
    /\ iPc' = "resetting"
    /\ iEv' = "refresh"
    /\ IF a = "ok"
       THEN /\ CONFIG' = updateStateConfig(CONFIG,
                            [instanceList |-> StoredListing(Listing(remote))])
            /\ Wrote({"instanceList"}, "service")
       ELSE UNCHANGED <<CONFIG, writers>>
    /\ UNCHANGED <<remote, timers, iTarget, listFetches, created, sinceDelete>>

\* what deleteInstanceItems stores at its end
ResetState ==
    [instanceList |-> <<>>, instanceState |-> <<>>,
     doNotRemindExpiration |-> FALSE, updateStatusBarInterval |-> <<>>]

\* clearInterval(CONFIG.updateStatusBarInterval)
AfterClear(scheduled, handle) ==
    IF handle = <<>> THEN scheduled ELSE scheduled \ {handle[1]}

\* deleteInstanceItems: clearInterval and the reset of the store
DeleteReset ==
    /\ iPc = "resetting"
    /\ iPc' = "idle"
    /\ timers' = AfterClear(timers, CONFIG.updateStatusBarInterval)
    /\ CONFIG' = updateStateConfig(CONFIG, ResetState)
    /\ Wrote(DOMAIN ResetState, "menu")
    /\ sinceDelete' = TRUE
    /\ iEv' = "reset"
    /\ UNCHANGED <<remote, iTarget, listFetches, created>>

\* the recurring task is started for a tracked instance and its handle kept
\* in the store
StartRecurring ==
    /\ CONFIG.instanceList # <<>>
    /\ CONFIG.updateStatusBarInterval = <<>>
    /\ Cardinality(timers) < MaxTimers
    /\ LET h == CHOOSE x \in 1..MaxTimers : x \notin timers
       IN  /\ timers' = timers \cup {h}
           /\ CONFIG' = updateStateConfig(CONFIG,
                           [updateStatusBarInterval |-> <<h>>])
    /\ Wrote({"updateStatusBarInterval"}, "commands")
    /\ iEv' = "schedule"
    /\ UNCHANGED <<remote, iPc, iTarget, listFetches, created, sinceDelete>>

\* the recurring task fires: the state of the tracked instance is stored
TimerFire ==
    /\ timers # {}
    /\ iEv' = "fire"
    /\ IF CONFIG.instanceList # <<>>
       THEN /\ CONFIG' = updateStateConfig(CONFIG, [instanceState |-> <<"running">>])
            /\ Wrote({"instanceState"}, "commands")
       ELSE UNCHANGED <<CONFIG, writers>>
    /\ UNCHANGED <<remote, timers, iPc, iTarget, listFetches, created,
                   sinceDelete>>

\* checkInstanceExpiration: an expired instance starts an instance refresh
\* nobody awaits and, the list read right after being the old one, returns;
\* under five minutes the user may switch the reminder off
CheckExpiration(expired, silence) ==
    /\ CONFIG.instanceList # <<>>
    /\ iEv' = "check"
    /\ IF CONFIG.doNotRemindExpiration
       THEN UNCHANGED <<CONFIG, writers, listFetches>>
       ELSE IF expired
       THEN /\ listFetches < MaxListFetches
            /\ listFetches' = listFetches + 1
            /\ UNCHANGED <<CONFIG, writers>>
       ELSE IF silence
       THEN /\ CONFIG' = updateStateConfig(CONFIG, [doNotRemindExpiration |-> TRUE])
            /\ Wrote({"doNotRemindExpiration"}, "service")
            /\ UNCHANGED listFetches
       ELSE UNCHANGED <<CONFIG, writers, listFetches>>
    /\ UNCHANGED <<remote, timers, iPc, iTarget, created, sinceDelete>>

\* the instance refresh started by checkInstanceExpiration settles
ListFetchSettles(a) ==
    /\ listFetches > 0
    /\ listFetches' = listFetches - 1
    /\ iEv' = "refresh"
    /\ IF a = "ok"
       THEN /\ CONFIG' = updateStateConfig(CONFIG,
                            [instanceList |-> StoredListing(Listing(remote))])
            /\ Wrote({"instanceList"}, "service")
       ELSE UNCHANGED <<CONFIG, writers>>
    /\ UNCHANGED <<remote, timers, iPc, iTarget, created, sinceDelete>>

\* an instance reaches its expiration and the provider removes it
RemoteExpires(id) ==
    /\ id \in remote
    /\ remote' = remote \ {id}
    /\ iEv' = "expire"
    /\ UNCHANGED <<CONFIG, timers, iPc, iTarget, listFetches, created, writers,
                   sinceDelete>>

InstanceFrame ==
    UNCHANGED <<refreshes, wizardVars, trackerVars, opVars, storeVars, refreshVars>>

InstanceNext ==
    \/ \E id \in InstanceIds : InstCreate(id) /\ InstanceFrame
    \/ \E a \in CatalogAnswers : InstRefresh(a) /\ InstanceFrame
    \/ \E ok \in BOOLEAN : DeleteAnswered(ok) /\ InstanceFrame
    \/ \E a \in CatalogAnswers : DeleteRefreshed(a) /\ InstanceFrame
    \/ DeleteReset /\ InstanceFrame
    \/ StartRecurring /\ InstanceFrame
    \/ TimerFire /\ InstanceFrame
    \/ \E expired \in BOOLEAN, silence \in BOOLEAN :
          CheckExpiration(expired, silence) /\ InstanceFrame
    \/ \E a \in CatalogAnswers : ListFetchSettles(a) /\ InstanceFrame
    \/ \E id \in InstanceIds : RemoteExpires(id) /\ InstanceFrame

SpecInstance == InstanceInit /\ [][InstanceNext]_vars

\* ================================================================ properties
Accepted == lastEv'.kind = "accept"

Fresh == ~lastEv'.stale /\ ~lastEv'.late

Settled == {"completed", "cancelled", "error"}

\* C1: the result of a run is resolved once, with one of completed, cancelled
\* or error: once resolved it never changes, whatever event follows (a hide
\* after a completed or error resolution adds nothing), and a disposed picker
\* leaves no run unresolved.
C1_ResolvedOnce ==
    [][ /\ result.status # "pending" => result' = result
        /\ result'.status \in Settled \cup {"pending"}
        /\ result'.status = "completed" <=> Len(result'.payload) = 1
        /\ quickPick'.disposed => result'.status \in Settled ]_vars

\* a hide event was delivered after the run resolved with error
C1_Witness ==
    /\ lastEv.kind = "hide"
    /\ quickPick.disposed
    /\ result.status = "error"

\* the request a forward-only run of the create wizard builds from the
\* inputs ent, one per step
ForwardCreate(ent, max) ==
    LET p1 == CreateStepWrite(SelectPlan, NaNPlan, ent[SelectPlan][1], <<>>, max)
        p2 == CreateStepWrite(SelectOS, p1, ent[SelectOS][1], <<>>, max)
        p3 == CreateStepWrite(EnterTime, p2, <<>>, ent[EnterTime][1], max)
        p4 == CreateStepWrite(SelectSSHKey, p3, ent[SelectSSHKey][1], <<>>, max)
    IN  CreateStepWrite(SelectBootScript, p4, ent[SelectBootScript][1], <<>>, max)

\* the same for the rebuild wizard of plan planId
ForwardRebuild(ent, planId) ==
    LET r0 == [planId |-> planId, os |-> NaN, sshKey |-> NaN, bootScript |-> ""]
        r1 == RebuildStepWrite(RebuildSelectOS, r0, ent[RebuildSelectOS][1])
        r2 == RebuildStepWrite(RebuildSelectSSHKey, r1, ent[RebuildSelectSSHKey][1])
    IN  RebuildStepWrite(RebuildSelectBootScript, r2,
                         ent[RebuildSelectBootScript][1])

Completes == result.status = "pending" /\ result'.status = "completed"

\* C2: when a run completes, whatever back and forward transitions it took,
\* the committed request is the one a forward-only run builds from the last
\* value entered at each step.
C2_ForwardEquivalent ==
    [][ Completes =>
          IF wizard = "create"
          THEN /\ \A st \in SelectPlan..SelectBootScript : Len(entered'[st]) = 1
               /\ result'.payload =
                    <<ForwardCreate(entered', CONFIG.evoPermissions.max_time)>>
          ELSE /\ \A st \in RebuildSelectOS..RebuildSelectBootScript :
                     Len(entered'[st]) = 1
               /\ result'.payload =
                    <<ForwardRebuild(entered', rebulidInfo.planId)>> ]_vars

\* a run that used the back button completed
C2_Witness ==
    /\ wizard = "create"
    /\ wentBack
    /\ result.status = "completed"

\* the text is a decimal integer written out as a whole: a sign, digits, and
\* at most a fractional part of zeros
DenotesInteger(text) ==
    LET u == Unsigned(text)
        k == DigitRun(u)
        rest == SubSeq(u, k + 1, Len(u))
    IN  /\ k > 0
        /\ \/ rest = <<>>
           \/ /\ Head(rest) = "."
              /\ \A i \in 2..Len(rest) : rest[i] = "0"

IntegerDenoted(text) ==
    LET u == Unsigned(text) IN SignOf(text) * DigitsValue(SubSeq(u, 1, DigitRun(u)))

InRange(text, max) ==
    /\ DenotesInteger(trim(text))
    /\ IntegerDenoted(trim(text)) \in 1..max

\* C3: the duration step advances, by one step and storing the integer, if
\* and only if the trimmed input denotes an integer n with 1 <= n <= max.
C3_DurationIffInteger ==
    [][ (wizard = "create" /\ currentStep = EnterTime /\ Accepted /\ Fresh
            /\ lastEv'.sel = <<>>) =>
          LET v == lastEv'.value
              max == CONFIG.evoPermissions.max_time
          IN  IF InRange(v, max)
              THEN /\ currentStep' = SelectSSHKey
                   /\ plan'.time = IntegerDenoted(trim(v))
              ELSE /\ currentStep' = EnterTime
                   /\ plan'.time = plan.time ]_vars

\* the event carries a valid selection or input for the step on screen
ValidAccept(ev, max) ==
    IF wizard = "create" /\ currentStep = EnterTime
    THEN InRange(ev.value, max)
    ELSE ev.sel # <<>> /\ ev.sel[1] \in uiItems

\* C4: an accept that is not the back button and carries no valid selection
\* or input for the current step leaves the step index and the request as
\* they are, in both wizards.
C4_InvalidAcceptKeepsStep ==
    [][ (Accepted /\ Fresh /\ lastEv'.sel # <<backItem>>
            /\ ~ValidAccept(lastEv', CONFIG.evoPermissions.max_time)) =>
          /\ currentStep' = currentStep
          /\ plan' = plan
          /\ rebulidInfo' = rebulidInfo ]_vars

\* C5: a create run started while hasEvoPermission is false has resolved
\* with error and has rendered nothing: the picker is as created, nothing is
\* on screen and no render is suspended.
C5_NoPermissionNoRender ==
    (wizard = "create" /\ startConfig = <<FALSE>>) =>
        /\ result.status = "error"
        /\ quickPick = NewQuickPick
        /\ uiItems = {}
        /\ pendingRenders = <<>>

\* a run refused for the permission alone: the catalog has plans
C5_Witness ==
    /\ wizard = "create"
    /\ startConfig = <<FALSE>>
    /\ DOMAIN CONFIG.planList # {}
    /\ result.status = "error"

\* the inputs of the run of C6: plan R, OS V, "12", no key, no script
UseNoneInputs(R, V) ==
    [st \in 0..4 |->
        CASE st = SelectPlan -> << <<[label |-> "plan", description |-> <<R>>]>> >>
          [] st = SelectOS -> << <<[label |-> "os", description |-> <<V>>]>> >>
          [] st = EnterTime -> << <<"1", "2">> >>
          [] st = SelectSSHKey -> << <<NoKeyItem>> >>
          [] OTHER -> << <<NoScriptItem>> >>]

\* C6: choosing 'no SSH key' stores NaN and moves to the script step;
\* choosing 'no boot script' stores "" and completes; a run that entered
\* R, V, "12", no key, no script completes with {R, V, 12, NaN, ""}.
C6_UseNoneCompletes ==
    [][ (wizard = "create" /\ Accepted /\ result.status = "pending") =>
          /\ (currentStep = SelectSSHKey /\ lastEv'.sel = <<NoKeyItem>>) =>
                 plan'.sshKey = NaN /\ currentStep' = SelectBootScript
          /\ (currentStep = SelectBootScript /\ lastEv'.sel = <<NoScriptItem>>) =>
                 plan'.bootScript = "" /\ result'.status = "completed"
          /\ \A R \in PlanIds, V \in OsIds :
                 (Completes /\ entered' = UseNoneInputs(R, V)) =>
                    result'.payload =
                       <<[id |-> R, os |-> V, time |-> 12, sshKey |-> NaN,
                          bootScript |-> ""]>> ]_vars

C6_Witness ==
    /\ wizard = "create"
    /\ result.status = "completed"
    /\ \E R \in PlanIds, V \in OsIds : entered = UseNoneInputs(R, V)

\* the OS list of plan id in the store
OsOptions(cfg, id) ==
    IF id \in DOMAIN cfg.planList THEN cfg.planList[id] ELSE {}

\* the transition renders the OS step of the run
RendersOsStep ==
    \/ wizard = "create" /\ Accepted /\ currentStep' = SelectOS
          /\ currentStep # SelectOS
    \/ wizard = "rebuild" /\ Accepted /\ currentStep' = RebuildSelectOS
          /\ currentStep # RebuildSelectOS
    \/ wizard = "none" /\ wizard' = "rebuild"

\* C7: a run that is about to render a step with no option (no plan in the
\* catalog at the start of the create wizard; the chosen plan missing from
\* the catalog, or with an empty OS list, in both wizards) resolves with
\* error, not cancelled, with a reason naming what is missing, and the
\* picker is not on screen.
C7_EmptyOptionsError ==
    [][ /\ (wizard = "none" /\ wizard' = "create" /\ CONFIG.hasEvoPermission
              /\ DOMAIN CONFIG.planList = {}) =>
                /\ result' = ErrorResult("no plan available", NaN)
                /\ quickPick' = NewQuickPick
        /\ \A id \in PlanIds \cup {NaN} :
              (RendersOsStep /\ result.status = "pending"
                  /\ id = (IF wizard' = "create" THEN plan'.id ELSE rebulidInfo'.planId)
                  /\ OsOptions(CONFIG, id) = {}) =>
                /\ result'.status = "error"
                /\ result'.message[2] = id
                /\ ~quickPick'.visible ]_vars

\* a run resolved with error on a plan that has no OS to offer
C7_Witness ==
    /\ wizard # "none"
    /\ currentStep = (IF wizard = "create" THEN SelectOS ELSE RebuildSelectOS)
    /\ result.status = "error"
    /\ result.message \in {<<"no OS list for plan", id>> : id \in PlanIds}
                            \cup {<<"plan has no OS", id>> : id \in PlanIds}

\* C8: the back button takes the step index down by exactly one, on every
\* step but the first, where it does nothing; the index never goes below
\* the first step; a finished render offers the back button exactly on the
\* steps after the first.
C8_BackByOne ==
    [][ /\ (Accepted /\ lastEv'.sel = <<backItem>>) =>
              currentStep' = (IF currentStep > 0 THEN currentStep - 1 ELSE 0)
        /\ currentStep' >= 0
        /\ (wizard' # "none" /\ quickPick'.visible /\ ~uiStale') =>
              (backItem \in uiItems' <=> currentStep' > 0) ]_vars

\* the back button took a run back to its first step
C8_Witness ==
    /\ lastEv.kind = "accept"
    /\ lastEv.sel = <<backItem>>
    /\ wentBack
    /\ currentStep = 0
    /\ quickPick.visible

\* C9: an accept event of an earlier render than the last one started, or
\* one that arrives after the picker was told to hide, is rejected: it
\* changes neither the step index, nor the request, nor the result.
C9_StaleAcceptRejected ==
    [][ (Accepted /\ ~Fresh) =>
          /\ currentStep' = currentStep
          /\ plan' = plan
          /\ rebulidInfo' = rebulidInfo
          /\ result' = result ]_vars

\* C10: a loop that never fetched what it waits for, and met no error that
\* ends it, has issued exactly maxAttempts fetches when it terminates (60
\* for the loops on the instance state, 180 for pollBootScriptResult).
C10_ExactlyMaxAttemptsFetches ==
    (trackerPc = "done" /\ ~everTrue /\ ~hardError) =>
        fetches = (IF tracker = "script" THEN pollMaxAttempts ELSE maxAttempts)

\* the number of attempts the loop of the tracker allows
MaxAttemptsOf(kind) == IF kind = "script" THEN pollMaxAttempts ELSE maxAttempts

\* C11: once a fetch has returned what the loop waits for, at the k-th fetch
\* with 1 <= k <= maxAttempts, no further fetch is issued, the loop is at its
\* exit, and it ends after exactly k fetches with the outcome of success.
C11_ReachedAtFirstTrue ==
    (firstTrue \in 1..MaxAttemptsOf(tracker)) =>
        /\ fetches = firstTrue
        /\ trackerPc \in {"test", "done"}
        /\ trackerPc = "test" => ~KeepsPolling(instanceState, state, attempts)
        /\ trackerPc = "done" => trackerEnd \in {"reported success", "completed"}

\* a loop on the instance state ended by its last allowed fetch
C11_Witness ==
    /\ tracker = "power"
    /\ trackerPc = "done"
    /\ firstTrue = maxAttempts
    /\ fetches = maxAttempts

\* C12: in pollBootScriptResult an answer 'still running' (202), or a
\* success answer without output, is an empty poll: the loop counts it and
\* goes on without a message; an answer with any other error ends the loop
\* at once as a failure whose message carries the error; a loop that ended
\* issues no further fetch.
C12_PendingContinuesErrorEnds ==
    [][ /\ (tracker = "script" /\ fetches' = fetches + 1) =>
              /\ lastPoll' \in {"202", "empty"} =>
                    /\ trackerPc' = "delay"
                    /\ attempts' = attempts + 1
                    /\ trackerEnd' = "none"
                    /\ ~hardError'
                    /\ notifications' = notifications
              /\ lastPoll' = "error" =>
                    /\ trackerPc' = "done"
                    /\ trackerEnd' = "failed"
                    /\ lastNotice' = <<"error", "script failed", "error">>
                    /\ notifications' =
                          [notifications EXCEPT !.error = @ + 1]
        /\ (tracker = "script" /\ trackerPc = "done") => fetches' = fetches ]_vars

\* the loop failed on its third fetch, after two empty polls
C12_Witness ==
    /\ tracker = "script"
    /\ trackerEnd = "failed"
    /\ lastPoll = "error"
    /\ attempts = 2
    /\ fetches = 3

\* C13: a polling loop that used up maxAttempts without fetching what it
\* waits for ends with an outcome of its own, timeout, and the operation
\* that ran it shows a warning and no message of success.
C13_TimeoutIsWarning ==
    /\ (trackerPc = "done" /\ ~everTrue /\ ~hardError) => trackerEnd = "timeout"
    /\ (opPc = "done" /\ opFailure = "timeout") =>
          /\ notifications.info = 0
          /\ notifications.warning >= 1

\* C18: an operation that ended in failure (its remote call rejected or was
\* answered without success, or its polling loop failed or timed out) has
\* shown exactly one message, and it is not a message of success.
C18_OneNotificationPerFailure ==
    (opPc = "done" /\ opFailure # "none") =>
        /\ notifications.info = 0
        /\ notifications.warning + notifications.error = 1

\* C19: a create, rebuild or power operation whose remote call rejected, or
\* was answered without success, starts no polling loop and issues no fetch.
C19_FailedCallSkipsTracker ==
    (op \in {"create", "rebuild", "power"} /\ response # "ok") =>
        /\ tracker = "none"
        /\ fetches = 0

\* the store right after the i-th call of updateStateConfig
AfterUpdate(i) == IF i < Len(updates) THEN snapshots[i + 1] ELSE CONFIG

\* C14: a call of updateStateConfig is a shallow merge seen as a whole: in
\* the store after it every field of newState has the value given and
\* every other field the value it had before; after two calls on different
\* fields the store has both and, elsewhere, what it had before the first.
C14_ShallowMerge ==
    /\ \A i \in 1..Len(updates) :
          /\ DOMAIN AfterUpdate(i) = DOMAIN snapshots[i]
          /\ \A f \in DOMAIN snapshots[i] :
                AfterUpdate(i)[f] =
                   IF f \in DOMAIN updates[i] THEN updates[i][f] ELSE snapshots[i][f]
    /\ (Len(updates) = 2 /\ DOMAIN updates[1] \cap DOMAIN updates[2] = {}) =>
          \A f \in DOMAIN CONFIG :
             CONFIG[f] = CASE f \in DOMAIN updates[1] -> updates[1][f]
                           [] f \in DOMAIN updates[2] -> updates[2][f]
                           [] OTHER -> snapshots[1][f]

\* two calls on different fields, the first of which changed the store
C14_Witness ==
    /\ Len(updates) = 2
    /\ DOMAIN updates[1] \cap DOMAIN updates[2] = {}
    /\ snapshots[2] # snapshots[1]
    /\ CONFIG # snapshots[2]

\* ---------------------------------------------------------------- C15
RefreshDone == rPc = "done" /\ rBefore # <<>>

\* the OS fetched for the plan that the plan's own id list lets through
Allowed(p) ==
    IF rOut.allow[p] = <<>>
    THEN rOut.osFetched[p]
    ELSE {o \in rOut.osFetched[p] : o \in rOut.allow[p][1]}

OneOsFetchFailed ==
    /\ RefreshDone
    /\ rOut.plans = "ok"
    /\ Cardinality(rOut.osFailed) = 1
    /\ Len(rPlans) >= 2

\* C15: a full refresh in which the OS fetch of one plan fails and those of
\* the other plans succeed runs to its end (the key list is fetched too),
\* stores the failed plan with an empty OS list and every other plan with
\* the OS list fetched for it, and leaves hasEvoPermission as the permission
\* step set it
C15_OneOsFailureIsolated ==
    OneOsFetchFailed =>
        /\ rOut.keys # "none"
        /\ Len(CONFIG.planList) = Len(rPlans)
        /\ \A p \in DOMAIN CONFIG.planList :
              CONFIG.planList[p] =
                 IF p \in rOut.osFailed THEN {} ELSE Allowed(p)
        /\ CONFIG.hasEvoPermission

C15_Witness ==
    /\ OneOsFetchFailed
    /\ rOut.permission = "granted"
    /\ \E p \in DOMAIN CONFIG.planList :
          p \notin rOut.osFailed /\ CONFIG.planList[p] = OsIds

\* ---------------------------------------------------------------- C16
CatalogCalls == {"getPlanList", "getPlanToOS", "getSSHKeyList"}

\* C16: when the permission fetch of a full refresh reports denial, the
\* store holds hasEvoPermission = false and the refresh issues no plan-list,
\* OS-list or key-list fetch
C16_DenialStopsRefresh ==
    (rOut.permission = "denied") =>
        /\ ~CONFIG.hasEvoPermission
        /\ rPc = "done"
        /\ \A i \in DOMAIN rLog : rLog[i].call \notin CatalogCalls

C16_Witness ==
    /\ RefreshDone
    /\ rOut.permission = "denied"
    /\ rBefore[1].hasEvoPermission
    /\ rBefore[1].planList # <<>>

\* ---------------------------------------------------------------- C17
Issued(name) == \E i \in DOMAIN rLog : rLog[i].call = name

PermittedRefreshDone ==
    /\ RefreshDone
    /\ rOut.permission = "granted"
    /\ rOut.keys # "none"

\* C17: in a full refresh with permission granted, a failed plan-list or
\* key-list fetch does not stop the other fetches, and after the refresh
\* the failed catalog is empty in the store whatever it held before
C17_FailedCatalogEmptied ==
    PermittedRefreshDone =>
        /\ Issued("getPlanList") /\ Issued("getSSHKeyList")
        /\ (rOut.plans = "failed") => (CONFIG.planList = <<>>)
        /\ (rOut.keys = "failed") => (CONFIG.sshKeyList = {})

\* ---------------------------------------------------------------- C20
RejectedDuration ==
    /\ wizard = "create"
    /\ currentStep = EnterTime
    /\ Accepted
    /\ Fresh
    /\ lastEv'.sel = <<>>
    /\ ~ValidateTime(lastEv'.value, CONFIG.evoPermissions.max_time).ok

\* C20: when the duration step rejects an input, the same step is rendered
\* again and the error message of the rejection is still there after the
\* re-render; the message for a non-integer input such as "3.5" is not the
\* message for an input above max_time
C20_InlineErrorAfterRender ==
    [][ RejectedDuration =>
          LET max == CONFIG.evoPermissions.max_time
          IN  /\ currentStep' = EnterTime
              /\ errorMessage' = ValidateTime(lastEv'.value, max).error
              /\ errorMessage' # <<>>
              /\ ValidateTime(<<"3", ".", "5">>, max).error
                    # ValidateTime(ToStr(max + 1), max).error ]_vars

\* ---------------------------------------------------------------- C21
WentBackAndRendered ==
    /\ Accepted
    /\ lastEv'.sel = <<backItem>>
    /\ currentStep' = currentStep - 1
    /\ quickPick'.visible
    /\ ~uiStale'

\* the value a step took, as the picker would show it
EnteredValue(w, step) ==
    IF w = "create" /\ step = EnterTime THEN ToStr(plan.time) ELSE entered[step]

\* C21: the back button resets no field of the request, and the step that
\* is rendered again shows the value entered for it before (the duration
\* step has its input prefilled with the accepted duration)
C21_BackRestoresValues ==
    [][ WentBackAndRendered =>
          /\ plan' = plan
          /\ rebulidInfo' = rebulidInfo
          /\ entered[currentStep'] # <<>> =>
                ShownValue(quickPick', wizard, currentStep')
                   = EnteredValue(wizard, currentStep') ]_vars

\* ---------------------------------------------------------------- C22
\* the step took an input that passed its validation
TookCreate(step) ==
    /\ entered[step] # <<>>
    /\ IF step = EnterTime
       THEN CreateStepValid(step, <<>>, entered[step][1], MaxTime)
       ELSE CreateStepValid(step, entered[step][1], <<>>, MaxTime)

TookRebuild(step) ==
    entered[step] # <<>> /\ RebuildStepValid(step, entered[step][1])

NoSentinel(request) ==
    \A f \in DOMAIN request \cap {"id", "planId", "os", "time"} : request[f] # NaN

WizardStep ==
    /\ wizard' # "none"
    /\ lastEv'.kind # "refresh"
    /\ refreshes' = refreshes

\* C23: a wizard run only renders: in a run that asks for no permission
\* re-check, seeded with the stored default plan or not, and however it
\* ends, every field of CONFIG (defaultPlan among them) keeps the value it
\* had when the run started
C23_RunLeavesStore ==
    [][ WizardStep => CONFIG' = CONFIG ]_vars

\* ---------------------------------------------------------------- C24
\* C24: every field of CONFIG has a single writer: whatever the wizard, the
\* menu actions and the refresh service do, the writes to one field all come
\* from one of them (each going through updateStateConfig)
C24_SingleWriterPerField ==
    \A f \in StoreFields : Cardinality(writers[f]) <= 1

\* ---------------------------------------------------------------- C25
\* C25: the store tracks at most one instance: after any sequence of create,
\* delete, refresh and expiration check, CONFIG.instanceList has at most one
\* element, whatever getInstanceList returns
C25_AtMostOneInstance == Len(CONFIG.instanceList) <= 1

\* ---------------------------------------------------------------- C26
StoreIsReset ==
    /\ CONFIG.instanceList = <<>>
    /\ CONFIG.instanceState = <<>>
    /\ ~CONFIG.doNotRemindExpiration
    /\ CONFIG.updateStatusBarInterval = <<>>

\* C26: when a deletion has gone through, the recurring task is cancelled
\* and the store is reset (no instance, empty instance state, reminders on,
\* no task handle); from then on, until an instance is created, the task
\* does not fire and the store holds no instance
C26_DeletionTearsDown ==
    [][ /\ iEv' = "reset" => (timers' = {} /\ StoreIsReset')
        /\ (sinceDelete /\ sinceDelete') =>
              (iEv' # "fire" /\ CONFIG'.instanceList = <<>>) ]_vars

\* ---------------------------------------------------------------- C27
Rank(name) ==
    CASE name = "getInstanceList" -> 0
      [] name = "getEVOPermissions" -> 1
      [] name = "getPlanList" -> 2
      [] name = "getPlanToOS" -> 3
      [] name = "getSSHKeyList" -> 4

\* the calls were issued in the order of their ranks, one of each kind but
\* for the OS fetches
InOrder(log) ==
    \A i, j \in DOMAIN log :
       i < j => /\ Rank(log[i].call) <= Rank(log[j].call)
                /\ Rank(log[i].call) = Rank(log[j].call) =>
                      log[i].call = "getPlanToOS"

KeyFetchIssued == ~Issued("getSSHKeyList") /\ Issued("getSSHKeyList")'

\* C27 as stated: the remote calls of a full refresh are issued in the order
\* permissions, plan list, OS lists, key list, the permission fetch being
\* the first call, and the key list is fetched only after every OS fetch
\* has settled
C27_PermissionFirst ==
    [][ /\ rLog' # <<>> => rLog'[1].call = "getEVOPermissions"
        /\ InOrder(rLog')
        /\ KeyFetchIssued => AllSettled(rPlans) ]_vars

\* C27 amended: the instance list is fetched first, then the permissions,
\* the plan list, the OS lists and the key list in that order, and the key
\* list is fetched only after every OS fetch has settled
C27_InstancesThenPermission ==
    [][ /\ rLog' # <<>> => rLog'[1].call = "getInstanceList"
        /\ InOrder(rLog')
        /\ KeyFetchIssued => AllSettled(rPlans) ]_vars

\* a refresh that made every kind of call, with two OS fetches
C27_Witness ==
    /\ RefreshDone
    /\ Len(rPlans) >= 2
    /\ \A n \in {"getInstanceList", "getEVOPermissions", "getPlanList",
                 "getPlanToOS", "getSSHKeyList"} : Issued(n)

\* ---------------------------------------------------------------- C28
RefreshSucceeded ==
    /\ RefreshDone
    /\ rOut.plans = "ok"
    /\ rOut.keys = "ok"
    /\ rOut.osFailed = {}

\* C28: after a full refresh that went through, a stored plan that came with
\* its own list of OS ids holds exactly the fetched OS whose id is in that
\* list, and a plan that came without one holds every fetched OS
C28_AllowListFilters ==
    RefreshSucceeded =>
        /\ Len(CONFIG.planList) = Len(rPlans)
        /\ \A p \in DOMAIN CONFIG.planList :
              IF rOut.allow[p] = <<>>
              THEN CONFIG.planList[p] = rOut.osFetched[p]
              ELSE CONFIG.planList[p] =
                      {o \in rOut.osFetched[p] : o \in rOut.allow[p][1]}

\* one plan with a list that drops a fetched OS, one plan without a list
C28_Witness ==
    /\ RefreshSucceeded
    /\ \E p, q \in DOMAIN CONFIG.planList :
          /\ rOut.allow[p] # <<>>
          /\ CONFIG.planList[p] # rOut.osFetched[p]
          /\ CONFIG.planList[p] # {}
          /\ rOut.allow[q] = <<>>
          /\ CONFIG.planList[q] = OsIds

\* ---------------------------------------------------------------- C29
\* C29: every poll is sleep, fetch, test: each fetch of a loop (after create,
\* rebuild or a power action, or for the command result) is issued after a
\* whole delay has run out since the loop started or since its previous
\* fetch, so no loop fetches right upon starting
C29_SleepBeforeEveryFetch ==
    [][ inFlight' = inFlight + 1 => slept ]_vars

\* ---------------------------------------------------------------- C30
\* C30: the polling of one loop is sequential: at most one fetch is in
\* flight and at most one timer pending at any time, a fetch is issued only
\* when the previous one has been answered, and a loop that has ended
\* leaves no timer pending
C30_SequentialPolling ==
    [][ /\ inFlight' \in 0..1
        /\ pendingTimers' \in 0..1
        /\ inFlight' > inFlight => inFlight = 0
        /\ trackerPc' = "done" => (inFlight' = 0 /\ pendingTimers' = 0) ]_vars

\* pollBootScriptResult ran out of attempts: its last step was a delay
C30_Witness ==
    /\ tracker = "script"
    /\ trackerPc = "done"
    /\ trackerEnd = "timeout"
    /\ fetches >= 2
    /\ slept

\* ---------------------------------------------------------------- C31
\* the callback of a create, rebuild or power call that was answered with
\* success shows its message of success, or starts the auto-connect
FinalStep ==
    /\ op' \in {"create", "rebuild", "power"}
    /\ response' = "ok"
    /\ opPc # "done"
    /\ opPc' = "done"
    /\ \/ lastNotice' = <<"info", "operation succeeded", op'>>
             /\ notifications' # notifications
       \/ autoConnect' # "false"

\* C31: a create, rebuild or power operation runs in the order remote call,
\* polling loop, update of the store from the remote state, message: the
\* message of success (or the auto-connect) is never issued before the
\* polling loop has ended and updateConfig has returned
C31_NotifiedAfterStoreUpdate ==
    [][ FinalStep => (trackerPc = "done" /\ opPc = "final") ]_vars

\* ---------------------------------------------------------------- C32
\* the items of a list that come from planList, a plan's os list or
\* sshKeyList
CatalogItems(items) == {i \in items : i.label \in {"plan", "os", "key"}}

\* C32: while hasEvoPermission is false nothing is rendered from the
\* catalogs: a render of the create or the rebuild wizard puts no plan, OS
\* or key item in the picker, and the create menu shows no detail made from
\* the plan and key lists
C32_NoPermissionNoCatalogRender ==
    [][ ~CONFIG'.hasEvoPermission =>
          /\ quickPick'.items # quickPick.items =>
                CatalogItems(quickPick'.items) = {}
          /\ default_detail(CONFIG') = <<>> ]_vars

\* ---------------------------------------------------------------- C33
\* the request is valid against the store: its plan is in planList, its OS
\* in the OS list of that plan, its duration an integer of 1..max_time
ValidRequest(request, cfg) ==
    /\ request.id \in DOMAIN cfg.planList
    /\ request.os \in cfg.planList[request.id]
    /\ request.time \in 1..cfg.evoPermissions.max_time

\* createInstance(plan) is called in this step: an unseeded create run
\* completes (the menu passes its plan on), or the menu creates with the
\* default plan
CreateCalled ==
    \/ wizard = "create" /\ ~seeded /\ Completes
    \/ lastEv'.kind = "createInstance" /\ lastEv # lastEv'

CreateRequest ==
    IF lastEv'.kind = "createInstance" THEN lastEv'.value[1] ELSE result'.payload[1]

\* C33: every create call carries a validated request: its plan is in the
\* current plan catalog, its OS in that plan's OS list, its duration an
\* integer between 1 and max_time, for a request of a completed wizard run
\* and for the stored default plan alike, and the call is issued only while
\* hasEvoPermission is true
C33_CreateCallsValidated ==
    [][ CreateCalled =>
          /\ CONFIG'.hasEvoPermission
          /\ ValidRequest(CreateRequest, CONFIG') ]_vars

\* ---------------------------------------------------------------- C34
\* C34: once the run has resolved and its picker is disposed, no updateView
\* call assigns the items of the picker or shows it again; so a render that
\* was suspended at getScriptList when the picker was dismissed does not
\* fill and show the picker when it resumes
C34_NoRenderAfterDispose ==
    [][ (quickPick.disposed /\ result.status # "pending") =>
          /\ quickPick'.items = quickPick.items
          /\ quickPick'.visible = quickPick.visible
          /\ uiItems' = uiItems ]_vars

\* ---------------------------------------------------------------- C35
\* the refresh started by an expiration check settles and stores an empty
\* listing in place of the tracked instance
ExpiredInstanceGone ==
    /\ listFetches' < listFetches
    /\ CONFIG.instanceList # <<>>
    /\ CONFIG'.instanceList = <<>>

\* C35: a check that finds the instance expired decides on the listing its
\* own refresh produced: it does not return while that refresh is in
\* flight, and when the refresh lists no instance any more the store is
\* reset and the recurring task cancelled
C35_ExpirationDecidesOnRefreshedList ==
    [][ /\ iEv' = "check" => listFetches' = 0
        /\ ExpiredInstanceGone => (StoreIsReset' /\ timers' = {}) ]_vars

\* ---------------------------------------------------------------- C36
\* C36: in every state, also while the OS fetches of a refresh have only
\* partly settled, every plan of CONFIG.planList has a resolved OS list
\* (a list of OS, possibly empty): the plan list is stored in one update,
\* after every OS fetch of the refresh has settled, and until then the
\* store keeps the plan list it had when the refresh started
C36_CatalogPublishedResolved ==
    /\ \A p \in DOMAIN CONFIG.planList : CONFIG.planList[p] \subseteq OsIds
    /\ rPc = "os" => CONFIG.planList = rBefore[1].planList

\* a second refresh with one OS fetch settled and one pending, over a store
\* that holds the plan list of the first
C36_Witness ==
    /\ rPc = "os"
    /\ \E p, q \in DOMAIN rPlans : rPlans[p] # <<>> /\ rPlans[q] = <<>>
    /\ DOMAIN CONFIG.planList # {}
    /\ \E p \in DOMAIN rPlans : rPlans[p] # <<>> /\ p \in DOMAIN CONFIG.planList
                                   /\ rPlans[p][1] # CONFIG.planList[p]

====
